---- MODULE Spec2Model ----
(***************************************************************************)
(* The chunk-replication and adult-liveness core of safe_vault:            *)
(*   - AdultLiveness  (src/src/metadata/adult_liveness.rs)                 *)
(*   - ChunkStorage   (src/src/chunks/chunk_storage.rs)                    *)
(*   - BlobRecords    (src/src/metadata/blob_records.rs)                   *)
(* Handlers are operators from a state record to a state record, so that a *)
(* handler that calls another one (retain_members_only -> remove_target)   *)
(* is one action of the model.                                             *)
(***************************************************************************)
EXTENDS Integers, Sequences, FiniteSets, TLC

\* ------------------------------------------------------------------ bounds
\* XorNames are the integers 0..MaxName (the XOR metric is the one of the
\* 256-bit names, on fewer bits).
MaxName == 3
\* The largest target set a caller hands to new_write / new_read.
MaxTargets == 2
\* The specifications that record a history of the calls run on fewer names:
\* 0..MaxIdemName where what new_* returned is recorded, 0..MaxHistName where
\* the replies to an op are.
MaxIdemName == 1
MaxHistName == 2
\* find_unresponsive_adults is checked on the names 0..MaxFindName, each with
\* one of the pending counts of PendingValues: the counts around
\* MIN_PENDING_OPS, those around ten times a neighbour's count of 11, and the
\* counts 8, 9, 120 and 140 of the scenario of the specification.
MaxFindName == 2
\* Blob contents are 1..MaxContent, each blob takes one unit of the store's
\* max_capacity of MaxCapacity units.
MaxContent == 2
MaxCapacity == 3

\* BlobRecords places chunks among the adults 0..MaxWriteName: two adults
\* more than CHUNK_COPY_COUNT, so that the closest are chosen among more than
\* can be taken while another adult is full. Reads and the replies to them
\* run on the adults 0..MaxReadName; the order of two replies to one read is
\* examined on the adults 0..MaxOrderName, so that a read can await two
\* adults while a third one replies.
MaxWriteName == 5
MaxReadName == 1
MaxOrderName == 2

Names == 0..MaxName
WriteNames == 0..MaxWriteName
ReadNames == 0..MaxReadName
OrderNames == 0..MaxOrderName
HistNames == 0..MaxHistName
IdemNames == 0..MaxIdemName
FindNames == 0..MaxFindName
PendingValues == {0, 8, 9, 10, 11, 110, 111, 120, 140}
\* The pending counts of the adults when the replies of SpecOffline come in:
\* none, just above MIN_PENDING_OPS, and more than ten times that.
OfflinePendings == {0, 11, 111, 120}
\* The replies that come in in one behaviour of SpecOffline.
MaxReplies == 2
\* The routing events that the EventStream of SpecNode delivers before it ends.
MaxEvents == 3
\* How deep the duties and task handles that come out of handling a duty go:
\* a duty at depth MaxDepth is handled with no further duty and no task.
MaxDepth == 1
MaxLoopEvents == 1
\* Two message ids: one op, and another one interleaved with it.
MsgIds == {1, 2}
\* The reads of SpecRead all carry one message id: the replies of the adults
\* to one read, and the reads that come under the same id after it.
ReadIds == {1}
TargetSetsOf(U) == {T \in SUBSET U : Cardinality(T) <= MaxTargets}
\* The tracker stores the address and the origin and hands them back; it never
\* branches on them.
EndUsers == {"client"}
NoOrigin == "none"
Addresses == {"addr"}
\* The public keys of the clients and of the owners of private blobs.
Keys == {"pk1", "pk2"}

\* --------------------------------------------------------------- constants
NEIGHBOUR_COUNT == 2
MIN_PENDING_OPS == 10
\* PENDING_OP_TOLERANCE_RATIO = 0.1 is kept as the fraction RatioNum/RatioDen.
RatioNum == 1
RatioDen == 10

\* The number of separate copies of a blob chunk which should be maintained.
CHUNK_COPY_COUNT == 4

VARIABLES
    ops,            \* HashMap<MessageId, Operation>
    pending_ops,    \* HashMap<XorName, usize>
    closest_adults, \* HashMap<XorName, Vec<XorName>>
    chunks,         \* ChunkStorage::chunks, the adult's BlobChunkStore
    full_adults,    \* AdultsStorageInfo::full_adults, BTreeSet<XorName>
    adults,         \* the adults of the section, as the AdultReader sees them
    history,        \* what the specification at hand records of the calls made
    threads,        \* Node::run: the task handles of `threads`, in the Vec's order
    event_lock,     \* Node::run: whether the Mutex around the EventStream is held
    network_events, \* the number of events taken from the EventStream so far
    handled,        \* the event behind each duty passed to handle, in the order handled
    node_duties,    \* Node::run: the duties of the result at hand still to be handled
    pc              \* Node::run: where the loop is

vars == <<ops, pending_ops, closest_adults, chunks, full_adults, adults, history,
          threads, event_lock, network_events, handled, node_duties, pc>>

\* The variables of Node::run, and their values while run has not been called.
node_vars == <<threads, event_lock, network_events, handled, node_duties, pc>>

NodeNotStarted ==
    /\ threads = <<>>
    /\ event_lock = FALSE
    /\ network_events = 0
    /\ handled = <<>>
    /\ node_duties = <<>>
    /\ pc = "new"

\* ------------------------------------------------------------ XOR distance
RECURSIVE Xor(_, _)
Xor(a, b) ==
    IF a = 0 THEN b
    ELSE IF b = 0 THEN a
    ELSE (((a % 2) + (b % 2)) % 2) + (2 * Xor(a \div 2, b \div 2))

\* adult.cmp_distance(lhs, rhs) = Less
CloserTo(adult, lhs, rhs) == Xor(adult, lhs) < Xor(adult, rhs)

RECURSIVE SortedByDistance(_, _)
SortedByDistance(adult, S) ==
    IF S = {} THEN <<>>
    ELSE LET m == CHOOSE x \in S : \A y \in S \ {x} : CloserTo(adult, x, y)
         IN  <<m>> \o SortedByDistance(adult, S \ {m})

Take(s, n) == IF Len(s) <= n THEN s ELSE SubSeq(s, 1, n)

\* ----------------------------------------------------------- AdultLiveness
\* The tracker as a value: [ops, pending_ops, closest_adults].
Tracker(o, p, c) == [ops |-> o, pending_ops |-> p, closest_adults |-> c]

New == Tracker(<<>>, <<>>, <<>>)

WriteOp(address, origin, targets) ==
    [kind |-> "Write", address |-> address, origin |-> origin, targets |-> targets]

ReadOp(address, origin, targets) ==
    [kind |-> "Read", address |-> address, origin |-> origin, targets |-> targets]

\* m with key k set to v (HashMap::insert)
Insert(m, k, v) == [x \in DOMAIN m \cup {k} |-> IF x = k THEN v ELSE m[x]]

\* m without key k (HashMap::remove)
Remove(m, k) == [x \in DOMAIN m \ {k} |-> m[x]]

recompute_closest_adults(c) ==
    [adult \in DOMAIN c |->
        Take(SortedByDistance(adult, DOMAIN c \ {adult}), NEIGHBOUR_COUNT)]

\* A pass of the loop that counts the op for the node and leaves
\* closest_adults as it is.
IncrementOneCountingOnly(t, node) ==
    Tracker(t.ops,
            Insert(t.pending_ops, node,
                   (IF node \in DOMAIN t.pending_ops THEN t.pending_ops[node] ELSE 0) + 1),
            t.closest_adults)

\* One pass of the loop of increment_pending_op, for one node.
IncrementOne(t, node) ==
    LET p == Insert(t.pending_ops, node,
                    (IF node \in DOMAIN t.pending_ops THEN t.pending_ops[node] ELSE 0) + 1)
        c == IF node \in DOMAIN t.closest_adults
             THEN t.closest_adults
             ELSE recompute_closest_adults(Insert(t.closest_adults, node, <<>>))
    IN  Tracker(t.ops, p, c)

\* increment_pending_op that counts the op for its least target only.
increment_pending_op_least_only(t, targets) ==
    IF targets = {} THEN t
    ELSE IncrementOne(t, CHOOSE x \in targets : \A y \in targets : x <= y)

\* The loop runs over a BTreeSet: ascending order of names.
RECURSIVE increment_pending_op(_, _)
increment_pending_op(t, targets) ==
    IF targets = {} THEN t
    ELSE LET node == CHOOSE x \in targets : \A y \in targets : x <= y
         IN  increment_pending_op(IncrementOne(t, node), targets \ {node})

\* new_write that inserts over an op already registered under msg_id.
new_write_overwriting(t, msg_id, origin, address, targets) ==
    [t |-> increment_pending_op(
               Tracker(Insert(t.ops, msg_id, WriteOp(address, origin, targets)),
                       t.pending_ops, t.closest_adults),
               targets),
     ret |-> TRUE]

\* new_write and new_read: the tracker after the call, and the value returned.
new_write(t, msg_id, origin, address, targets) ==
    IF msg_id \notin DOMAIN t.ops
    THEN [t |-> increment_pending_op(
                    Tracker(Insert(t.ops, msg_id, WriteOp(address, origin, targets)),
                            t.pending_ops, t.closest_adults),
                    targets),
          ret |-> TRUE]
    ELSE [t |-> t, ret |-> FALSE]

new_read(t, msg_id, address, origin, targets) ==
    IF msg_id \notin DOMAIN t.ops
    THEN [t |-> increment_pending_op(
                    Tracker(Insert(t.ops, msg_id, ReadOp(address, origin, targets)),
                            t.pending_ops, t.closest_adults),
                    targets),
          ret |-> TRUE]
    ELSE [t |-> t, ret |-> FALSE]

\* remove_target that leaves an op in ops when its last target is removed.
remove_target_never_completes(t, msg_id, name) ==
    LET p == IF name \in DOMAIN t.pending_ops /\ t.pending_ops[name] > 0
             THEN [t.pending_ops EXCEPT ![name] = @ - 1]
             ELSE t.pending_ops
        o == IF msg_id \in DOMAIN t.ops
             THEN [t.ops EXCEPT ![msg_id].targets = @ \ {name}]
             ELSE t.ops
    IN  Tracker(o, p, t.closest_adults)

\* remove_target that counts the reply down only while the op is in ops.
remove_target_counting_live_only(t, msg_id, name) ==
    LET p == IF /\ msg_id \in DOMAIN t.ops
                /\ name \in DOMAIN t.pending_ops
                /\ t.pending_ops[name] > 0
             THEN [t.pending_ops EXCEPT ![name] = @ - 1]
             ELSE t.pending_ops
        o == IF msg_id \in DOMAIN t.ops
             THEN LET targets == t.ops[msg_id].targets \ {name}
                  IN  IF targets = {}
                      THEN Remove(t.ops, msg_id)
                      ELSE [t.ops EXCEPT ![msg_id].targets = targets]
             ELSE t.ops
    IN  Tracker(o, p, t.closest_adults)

\* remove_target that takes the reply of a name that is not a target of the
\* op for the last reply.
remove_target_completing_on_stray(t, msg_id, name) ==
    LET p == IF name \in DOMAIN t.pending_ops /\ t.pending_ops[name] > 0
             THEN [t.pending_ops EXCEPT ![name] = @ - 1]
             ELSE t.pending_ops
        o == IF msg_id \in DOMAIN t.ops
             THEN LET targets == t.ops[msg_id].targets \ {name}
                  IN  IF targets = {} \/ name \notin t.ops[msg_id].targets
                      THEN Remove(t.ops, msg_id)
                      ELSE [t.ops EXCEPT ![msg_id].targets = targets]
             ELSE t.ops
    IN  Tracker(o, p, t.closest_adults)

\* remove_target that takes the reply of the least of the remaining targets
\* for the last reply.
remove_target_completing_on_least(t, msg_id, name) ==
    LET p == IF name \in DOMAIN t.pending_ops /\ t.pending_ops[name] > 0
             THEN [t.pending_ops EXCEPT ![name] = @ - 1]
             ELSE t.pending_ops
        o == IF msg_id \in DOMAIN t.ops
             THEN LET targets == t.ops[msg_id].targets \ {name}
                  IN  IF targets = {} \/ \A n \in targets : name < n
                      THEN Remove(t.ops, msg_id)
                      ELSE [t.ops EXCEPT ![msg_id].targets = targets]
             ELSE t.ops
    IN  Tracker(o, p, t.closest_adults)

\* remove_target that counts the reply down and leaves the op as it is.
remove_target_only_decrementing(t, msg_id, name) ==
    LET p == IF name \in DOMAIN t.pending_ops /\ t.pending_ops[name] > 0
             THEN [t.pending_ops EXCEPT ![name] = @ - 1]
             ELSE t.pending_ops
    IN  Tracker(t.ops, p, t.closest_adults)

remove_target(t, msg_id, name) ==
    LET p == IF name \in DOMAIN t.pending_ops /\ t.pending_ops[name] > 0
             THEN [t.pending_ops EXCEPT ![name] = @ - 1]
             ELSE t.pending_ops
        o == IF msg_id \in DOMAIN t.ops
             THEN LET targets == t.ops[msg_id].targets \ {name}
                  IN  IF targets = {}
                      THEN Remove(t.ops, msg_id)
                      ELSE [t.ops EXCEPT ![msg_id].targets = targets]
             ELSE t.ops
    IN  Tracker(o, p, t.closest_adults)

\* The inner loop of retain_members_only: remove_target(msg_id, name) for the
\* message ids collected before the loop, in the order ids.
RECURSIVE RemoveFromAll(_, _, _)
RemoveFromAll(t, ids, name) ==
    IF ids = <<>> THEN t
    ELSE RemoveFromAll(remove_target(t, Head(ids), name), Tail(ids), name)

RECURSIVE SeqOfSet(_)
SeqOfSet(S) ==
    IF S = {} THEN <<>>
    ELSE LET m == CHOOSE x \in S : \A y \in S : x <= y
         IN  <<m>> \o SeqOfSet(S \ {m})

\* The outer loop of retain_members_only without its inner loop: the names
\* that left stay among the targets of the ops.
RECURSIVE retain_loop_keeping_targets(_, _, _)
retain_loop_keeping_targets(t, old_members, current_members) ==
    IF old_members = <<>> THEN t
    ELSE LET name == Head(old_members)
             t1 == IF name \notin current_members
                   THEN Tracker(t.ops, Remove(t.pending_ops, name),
                                Remove(t.closest_adults, name))
                   ELSE t
         IN  retain_loop_keeping_targets(t1, Tail(old_members), current_members)

\* The outer loop of retain_members_only over old_members, in the order given.
RECURSIVE RetainLoop(_, _, _)
RetainLoop(t, old_members, current_members) ==
    IF old_members = <<>> THEN t
    ELSE LET name == Head(old_members)
             t1 == IF name \notin current_members
                   THEN RemoveFromAll(
                            Tracker(t.ops, Remove(t.pending_ops, name),
                                    Remove(t.closest_adults, name)),
                            SeqOfSet(DOMAIN t.ops), name)
                   ELSE t
         IN  RetainLoop(t1, Tail(old_members), current_members)

\* retain_members_only that forgets to recompute the neighbour lists.
retain_without_recompute(t, old_members, current_members) ==
    RetainLoop(t, old_members, current_members)

\* old_members is the key set of closest_adults in the map's iteration order.
retain_members_only(t, old_members, current_members) ==
    LET t1 == RetainLoop(t, old_members, current_members)
    IN  Tracker(t1.ops, t1.pending_ops, recompute_closest_adults(t1.closest_adults))

NoneRet == [some |-> FALSE]
SomeRet(address, origin) == [some |-> TRUE, address |-> address, origin |-> origin]

record_adult_write_liveness(t, correlation_id, src) ==
    [t |-> remove_target(t, correlation_id, src),
     ret |-> IF correlation_id \in DOMAIN t.ops /\ t.ops[correlation_id].kind = "Write"
             THEN SomeRet(t.ops[correlation_id].address, t.ops[correlation_id].origin)
             ELSE NoneRet]

record_adult_read_liveness(t, correlation_id, src) ==
    [t |-> remove_target(t, correlation_id, src),
     ret |-> IF correlation_id \in DOMAIN t.ops /\ t.ops[correlation_id].kind = "Read"
             THEN SomeRet(t.ops[correlation_id].address, t.ops[correlation_id].origin)
             ELSE NoneRet]

Max(S) == CHOOSE x \in S : \A y \in S : y <= x

PendingOf(t, name) == IF name \in DOMAIN t.pending_ops THEN t.pending_ops[name] ELSE 0

\* neighbours.iter().map(pending).max(): the set is empty when there is no
\* neighbour, and the adult is then passed over.
NeighbourPendings(t, adult) ==
    {PendingOf(t, t.closest_adults[adult][i]) : i \in 1..Len(t.closest_adults[adult])}

\* find_unresponsive_adults with >= where the code has >.
find_unresponsive_inclusive(t) ==
    {<<adult, PendingOf(t, adult)>> : adult \in
        {a \in DOMAIN t.closest_adults :
            /\ NeighbourPendings(t, a) # {}
            /\ PendingOf(t, a) >= MIN_PENDING_OPS
            /\ Max(NeighbourPendings(t, a)) >= MIN_PENDING_OPS
            /\ PendingOf(t, a) * RatioNum >= Max(NeighbourPendings(t, a)) * RatioDen}}

\* find_unresponsive_adults with the ratio test turned around.
find_unresponsive_reversed(t) ==
    {<<adult, PendingOf(t, adult)>> : adult \in
        {a \in DOMAIN t.closest_adults :
            /\ NeighbourPendings(t, a) # {}
            /\ PendingOf(t, a) > MIN_PENDING_OPS
            /\ Max(NeighbourPendings(t, a)) > MIN_PENDING_OPS
            /\ PendingOf(t, a) * RatioNum < Max(NeighbourPendings(t, a)) * RatioDen}}

\* find_unresponsive_adults that takes the least pending count of the
\* neighbours where the code takes the greatest.
find_unresponsive_least(t) ==
    {<<adult, PendingOf(t, adult)>> : adult \in
        {a \in DOMAIN t.closest_adults :
            /\ NeighbourPendings(t, a) # {}
            /\ PendingOf(t, a) > MIN_PENDING_OPS
            /\ -Max({-x : x \in NeighbourPendings(t, a)}) > MIN_PENDING_OPS
            /\ PendingOf(t, a) * RatioNum
                   > (-Max({-x : x \in NeighbourPendings(t, a)})) * RatioDen}}

\* The Vec returned, as the set of its pairs (the order is the map's). The
\* test `p as f64 * 0.1 > q as f64` is p * 1 > q * 10 on the integers: for
\* p = 10 q the product rounds to q exactly, and for p > 10 q it is above q.
find_unresponsive_adults(t) ==
    {<<adult, PendingOf(t, adult)>> : adult \in
        {a \in DOMAIN t.closest_adults :
            /\ NeighbourPendings(t, a) # {}
            /\ PendingOf(t, a) > MIN_PENDING_OPS
            /\ Max(NeighbourPendings(t, a)) > MIN_PENDING_OPS
            /\ PendingOf(t, a) * RatioNum > Max(NeighbourPendings(t, a)) * RatioDen}}

\* ------------------------------------------------------------------ state
Self == Tracker(ops, pending_ops, closest_adults)

Becomes(t) ==
    /\ ops' = t.ops
    /\ pending_ops' = t.pending_ops
    /\ closest_adults' = t.closest_adults
    /\ UNCHANGED <<chunks, full_adults, adults, node_vars>>

\* The keys of closest_adults in the order the loop of retain_members_only
\* meets them. Each pass of that loop touches only the entries of its own
\* name, so the order does not show in the result; the model takes them
\* ascending.
OldMembers == SeqOfSet(DOMAIN closest_adults)

\* -------------------------------------------------- Spec: the tracker alone
Init ==
    /\ chunks = <<>>
    /\ full_adults = {}
    /\ adults = {}
    /\ NodeNotStarted
    /\ ops = New.ops
    /\ pending_ops = New.pending_ops
    /\ closest_adults = New.closest_adults
    /\ history = <<>>

NewWrite ==
    \E msg_id \in MsgIds, origin \in {NoOrigin}, address \in Addresses,
       targets \in TargetSetsOf(Names) :
        /\ Becomes(new_write(Self, msg_id, origin, address, targets).t)
        /\ UNCHANGED history

NewRead ==
    \E msg_id \in MsgIds, origin \in EndUsers, address \in Addresses,
       targets \in TargetSetsOf(Names) :
        /\ Becomes(new_read(Self, msg_id, address, origin, targets).t)
        /\ UNCHANGED history

RemoveTarget ==
    \E msg_id \in MsgIds, name \in Names :
        /\ Becomes(remove_target(Self, msg_id, name))
        /\ UNCHANGED history

RecordAdultWriteLiveness ==
    \E correlation_id \in MsgIds, src \in Names :
        /\ Becomes(record_adult_write_liveness(Self, correlation_id, src).t)
        /\ UNCHANGED history

RecordAdultReadLiveness ==
    \E correlation_id \in MsgIds, src \in Names :
        /\ Becomes(record_adult_read_liveness(Self, correlation_id, src).t)
        /\ UNCHANGED history

RetainMembersOnly ==
    \E current_members \in SUBSET Names :
        /\ Becomes(retain_members_only(Self, OldMembers, current_members))
        /\ UNCHANGED history

Next ==
    \/ NewWrite
    \/ NewRead
    \/ RemoveTarget
    \/ RecordAdultWriteLiveness
    \/ RecordAdultReadLiveness
    \/ RetainMembersOnly

Spec == Init /\ [][Next]_vars

\* Number of ops whose target set holds n.
OpsTargeting(n) == Cardinality({id \in DOMAIN ops : n \in ops[id].targets})

\* C1: for every key n of pending_ops, pending_ops[n] is the number of ops
\* in ops whose target set contains n.
PendingOpAccounting ==
    \A n \in DOMAIN pending_ops : pending_ops[n] = OpsTargeting(n)

\* XOR distance between two names, as cmp_distance measures it.
Distance(a, b) == Xor(a, b)

Min(x, y) == IF x <= y THEN x ELSE y

\* C4: for every key a of closest_adults, closest_adults[a] lists exactly the
\* min(NEIGHBOUR_COUNT, |keys| - 1) keys other than a that are nearest to a by
\* XOR distance, in ascending distance; it never holds a itself nor a name
\* that is not a key.
ClosestAdultsCorrect ==
    \A a \in DOMAIN closest_adults :
        LET v == closest_adults[a]
            others == DOMAIN closest_adults \ {a}
            listed == {v[i] : i \in 1..Len(v)}
        IN  /\ Len(v) = Min(NEIGHBOUR_COUNT, Cardinality(others))
            /\ listed \subseteq others
            /\ Cardinality(listed) = Len(v)
            /\ \A i \in 1..Len(v) : \A j \in 1..Len(v) :
                   i < j => Distance(a, v[i]) < Distance(a, v[j])
            /\ \A x \in listed : \A y \in others \ listed :
                   Distance(a, x) < Distance(a, y)

\* C4 witness: there are more keys than a neighbour list can hold, so the
\* lists are truncated, and an op is in flight.
ClosestAdultsTruncated ==
    /\ Cardinality(DOMAIN closest_adults) > NEIGHBOUR_COUNT + 1
    /\ \E a \in DOMAIN closest_adults : Len(closest_adults[a]) = NEIGHBOUR_COUNT
    /\ DOMAIN ops # {}

\* ------------------------------- SpecIdem: the tracker, with what new_* returned
\* history.accepted[id] tells how often new_write / new_read returned true for
\* id: "never", "once" or "again" (more than once); history.call is the new_*
\* call of the last step and what it returned, <<>> after any other call.
Accepted(h, msg_id, ret) ==
    IF ret
    THEN [h.accepted EXCEPT ![msg_id] = IF @ = "never" THEN "once" ELSE "again"]
    ELSE h.accepted

AfterNew(h, msg_id, ret) ==
    [accepted |-> Accepted(h, msg_id, ret), call |-> [msg_id |-> msg_id, ret |-> ret]]

AfterOther(h) == [accepted |-> h.accepted, call |-> <<>>]

InitIdem ==
    /\ chunks = <<>>
    /\ full_adults = {}
    /\ adults = {}
    /\ NodeNotStarted
    /\ ops = New.ops
    /\ pending_ops = New.pending_ops
    /\ closest_adults = New.closest_adults
    /\ history = [accepted |-> [id \in MsgIds |-> "never"], call |-> <<>>]

IdemNewWrite ==
    \E msg_id \in MsgIds, origin \in {NoOrigin}, address \in Addresses,
       targets \in TargetSetsOf(IdemNames) :
        LET r == new_write(Self, msg_id, origin, address, targets)
        IN  /\ Becomes(r.t)
            /\ history' = AfterNew(history, msg_id, r.ret)

IdemNewRead ==
    \E msg_id \in MsgIds, origin \in EndUsers, address \in Addresses,
       targets \in TargetSetsOf(IdemNames) :
        LET r == new_read(Self, msg_id, address, origin, targets)
        IN  /\ Becomes(r.t)
            /\ history' = AfterNew(history, msg_id, r.ret)

IdemRemoveTarget ==
    \E msg_id \in MsgIds, name \in IdemNames :
        /\ Becomes(remove_target(Self, msg_id, name))
        /\ history' = AfterOther(history)

IdemRecordAdultWriteLiveness ==
    \E correlation_id \in MsgIds, src \in IdemNames :
        /\ Becomes(record_adult_write_liveness(Self, correlation_id, src).t)
        /\ history' = AfterOther(history)

IdemRecordAdultReadLiveness ==
    \E correlation_id \in MsgIds, src \in IdemNames :
        /\ Becomes(record_adult_read_liveness(Self, correlation_id, src).t)
        /\ history' = AfterOther(history)

IdemRetainMembersOnly ==
    \E current_members \in SUBSET IdemNames :
        /\ Becomes(retain_members_only(Self, OldMembers, current_members))
        /\ history' = AfterOther(history)

NextIdem ==
    \/ IdemNewWrite
    \/ IdemNewRead
    \/ IdemRemoveTarget
    \/ IdemRecordAdultWriteLiveness
    \/ IdemRecordAdultReadLiveness
    \/ IdemRetainMembersOnly

SpecIdem == InitIdem /\ [][NextIdem]_vars

\* C2 as claimed: over the lifetime of the tracker, new_write and new_read
\* together return true at most once for every message id.
TrueAtMostOncePerId ==
    \A id \in MsgIds : history.accepted[id] # "again"

\* C2 as amended: a call new_write / new_read (id, ..) returns true exactly
\* when no op is registered under id at the time of the call; so it returns
\* true at most once while that op stays in ops, and true again once the op
\* has completed and been removed.
TrueIffNotRegistered ==
    [][history'.call # <<>> =>
          (history'.call.ret <=> history'.call.msg_id \notin DOMAIN ops)]_vars

\* C2 witness: an id was accepted, its op completed and was removed, the id
\* was accepted a second time, and a further delivery of it was refused.
AcceptedAgainThenRefused ==
    \E id \in MsgIds :
        /\ history.accepted[id] = "again"
        /\ history.call = [msg_id |-> id, ret |-> FALSE]
        /\ id \in DOMAIN ops

\* ------------------------------- SpecNew: the tracker, with the call last made
\* history is the call of the last step: for new_write and new_read the
\* message id, the targets and the value returned.
NewCall(op, msg_id, targets, ret) ==
    [op |-> op, msg_id |-> msg_id, targets |-> targets, ret |-> ret]

OtherCall == [op |-> "other"]

InitNew ==
    /\ chunks = <<>>
    /\ full_adults = {}
    /\ adults = {}
    /\ NodeNotStarted
    /\ ops = New.ops
    /\ pending_ops = New.pending_ops
    /\ closest_adults = New.closest_adults
    /\ history = [op |-> "new"]

CallNewWrite ==
    \E msg_id \in MsgIds, origin \in {NoOrigin}, address \in Addresses,
       targets \in TargetSetsOf(IdemNames) :
        LET r == new_write(Self, msg_id, origin, address, targets)
        IN  /\ Becomes(r.t)
            /\ history' = NewCall("new_write", msg_id, targets, r.ret)

CallNewRead ==
    \E msg_id \in MsgIds, origin \in EndUsers, address \in Addresses,
       targets \in TargetSetsOf(IdemNames) :
        LET r == new_read(Self, msg_id, address, origin, targets)
        IN  /\ Becomes(r.t)
            /\ history' = NewCall("new_read", msg_id, targets, r.ret)

CallRemoveTarget ==
    \E msg_id \in MsgIds, name \in IdemNames :
        /\ Becomes(remove_target(Self, msg_id, name))
        /\ history' = OtherCall

CallRecordAdultWriteLiveness ==
    \E correlation_id \in MsgIds, src \in IdemNames :
        /\ Becomes(record_adult_write_liveness(Self, correlation_id, src).t)
        /\ history' = OtherCall

CallRecordAdultReadLiveness ==
    \E correlation_id \in MsgIds, src \in IdemNames :
        /\ Becomes(record_adult_read_liveness(Self, correlation_id, src).t)
        /\ history' = OtherCall

CallRetainMembersOnly ==
    \E current_members \in SUBSET IdemNames :
        /\ Becomes(retain_members_only(Self, OldMembers, current_members))
        /\ history' = OtherCall

NextNew ==
    \/ CallNewWrite
    \/ CallNewRead
    \/ CallRemoveTarget
    \/ CallRecordAdultWriteLiveness
    \/ CallRecordAdultReadLiveness
    \/ CallRetainMembersOnly

SpecNew == InitNew /\ [][NextNew]_vars

\* C20: new_write and new_read insert the op exactly when msg_id is not a key
\* of ops. On insert the op holds the targets given, the pending count of
\* every target grows by exactly one (from 0 for a name not yet counted),
\* every target is a key of closest_adults, and nothing else changes in ops
\* and pending_ops. When msg_id is a key of ops the call returns false and
\* ops, pending_ops and closest_adults are as before.
InsertIffAbsent ==
    [][history'.op \in {"new_write", "new_read"} =>
          LET id == history'.msg_id
              T == history'.targets
          IN  /\ history'.ret <=> id \notin DOMAIN ops
              /\ history'.ret =>
                     /\ DOMAIN ops' = DOMAIN ops \cup {id}
                     /\ ops'[id].targets = T
                     /\ ops'[id].kind = IF history'.op = "new_write" THEN "Write" ELSE "Read"
                     /\ \A other \in DOMAIN ops : ops'[other] = ops[other]
                     /\ DOMAIN pending_ops' = DOMAIN pending_ops \cup T
                     /\ \A n \in T : pending_ops'[n] = PendingOf(Self, n) + 1
                     /\ \A n \in DOMAIN pending_ops \ T : pending_ops'[n] = pending_ops[n]
                     /\ DOMAIN closest_adults' = DOMAIN closest_adults \cup T
              /\ ~history'.ret =>
                     /\ ops' = ops
                     /\ pending_ops' = pending_ops
                     /\ closest_adults' = closest_adults]_vars

\* C20 witness: a call for an id whose op is in flight was refused, and a
\* name that is a target of both the op and the refused call is counted once.
DuplicateNotCounted ==
    /\ history.op \in {"new_write", "new_read"}
    /\ ~history.ret
    /\ history.msg_id \in DOMAIN ops
    /\ \E n \in history.targets \cap ops[history.msg_id].targets : pending_ops[n] = 1

\* ------------------------- SpecDone: the tracker, with the replies to each op
\* history[id] follows the op last registered under id from the calls made:
\*   "none"  no op was registered under id, or the last one had no targets;
\*   "live"  awaiting holds the original targets for which remove_target(id, _)
\*           has not been called yet, dropped those of them that a
\*           retain_members_only call left out of current_members;
\*   "done"  remove_target(id, t) has been called for every original target t;
\*   "gone"  every target still awaited was dropped by retain_members_only.
Settled(status) == [status |-> status, awaiting |-> {}, dropped |-> {}]

Live(awaiting, dropped) ==
    IF awaiting = {} THEN Settled("done")
    ELSE IF awaiting \subseteq dropped THEN Settled("gone")
    ELSE [status |-> "live", awaiting |-> awaiting, dropped |-> dropped]

Registered(h, msg_id, targets, ret) ==
    IF ~ret THEN h
    ELSE [h EXCEPT ![msg_id] = IF targets = {} THEN Settled("none") ELSE Live(targets, {})]

Replied(h, msg_id, name) ==
    IF h[msg_id].status = "live"
    THEN [h EXCEPT ![msg_id] = Live(@.awaiting \ {name}, @.dropped \ {name})]
    ELSE h

Retained(h, current_members) ==
    [id \in DOMAIN h |->
        IF h[id].status = "live"
        THEN Live(h[id].awaiting, h[id].dropped \cup (h[id].awaiting \ current_members))
        ELSE h[id]]

InitDone ==
    /\ chunks = <<>>
    /\ full_adults = {}
    /\ adults = {}
    /\ NodeNotStarted
    /\ ops = New.ops
    /\ pending_ops = New.pending_ops
    /\ closest_adults = New.closest_adults
    /\ history = [id \in MsgIds |-> Settled("none")]

DoneNewWrite ==
    \E msg_id \in MsgIds, origin \in {NoOrigin}, address \in Addresses,
       targets \in TargetSetsOf(HistNames) :
        LET r == new_write(Self, msg_id, origin, address, targets)
        IN  /\ Becomes(r.t)
            /\ history' = Registered(history, msg_id, targets, r.ret)

DoneNewRead ==
    \E msg_id \in MsgIds, origin \in EndUsers, address \in Addresses,
       targets \in TargetSetsOf(HistNames) :
        LET r == new_read(Self, msg_id, address, origin, targets)
        IN  /\ Becomes(r.t)
            /\ history' = Registered(history, msg_id, targets, r.ret)

DoneRemoveTarget ==
    \E msg_id \in MsgIds, name \in HistNames :
        /\ Becomes(remove_target(Self, msg_id, name))
        /\ history' = Replied(history, msg_id, name)

DoneRecordAdultWriteLiveness ==
    \E correlation_id \in MsgIds, src \in HistNames :
        /\ Becomes(record_adult_write_liveness(Self, correlation_id, src).t)
        /\ history' = Replied(history, correlation_id, src)

DoneRecordAdultReadLiveness ==
    \E correlation_id \in MsgIds, src \in HistNames :
        /\ Becomes(record_adult_read_liveness(Self, correlation_id, src).t)
        /\ history' = Replied(history, correlation_id, src)

DoneRetainMembersOnly ==
    \E current_members \in SUBSET HistNames :
        /\ Becomes(retain_members_only(Self, OldMembers, current_members))
        /\ history' = Retained(history, current_members)

NextDone ==
    \/ DoneNewWrite
    \/ DoneNewRead
    \/ DoneRemoveTarget
    \/ DoneRecordAdultWriteLiveness
    \/ DoneRecordAdultReadLiveness
    \/ DoneRetainMembersOnly

SpecDone == InitDone /\ [][NextDone]_vars

\* C3: an op registered with a non-empty target set T is no longer in ops
\* once remove_target(msg_id, t) has been called for every t of T, and it is
\* still in ops, holding exactly the targets not yet replied for nor dropped,
\* before the last of those calls, unless retain_members_only removed the
\* targets that remained.
OpCompletesOnLastReply ==
    \A id \in MsgIds :
        /\ history[id].status = "done" => id \notin DOMAIN ops
        /\ history[id].status = "live" =>
               /\ id \in DOMAIN ops
               /\ ops[id].targets = history[id].awaiting \ history[id].dropped

\* C3 witness: one op has had a reply for each of its targets while the other
\* op, with two targets, has had one reply and awaits the other.
OneDoneOtherAwaiting ==
    \E id \in MsgIds, other \in MsgIds :
        /\ history[id].status = "done"
        /\ history[other].status = "live"
        /\ Cardinality(history[other].awaiting) = 1
        /\ other \in DOMAIN ops
        /\ pending_ops[CHOOSE n \in history[other].awaiting : TRUE] > 0

\* ------------------------------ SpecFind: find_unresponsive_adults on a tracker
\* A tracker whose pending counts are p: op i targets the adults with at least
\* i pending ops (the tracker after new_write(i, .., targets) for each i).
OpsFor(p) ==
    [i \in 1..Max({0} \cup {p[n] : n \in DOMAIN p}) |->
        WriteOp("addr", NoOrigin, {n \in DOMAIN p : p[n] >= i})]

InitFind ==
    \E keys \in SUBSET FindNames :
        \E p \in [keys -> PendingValues] :
            /\ pending_ops = p
            /\ closest_adults = recompute_closest_adults([k \in keys |-> <<>>])
            /\ ops = OpsFor(p)
            /\ chunks = <<>>
            /\ full_adults = {}
            /\ adults = {}
            /\ NodeNotStarted
            /\ history = [status |-> "not called", reported |-> {}]

FindUnresponsiveAdults ==
    /\ history' = [status |-> "called", reported |-> find_unresponsive_adults(Self)]
    /\ UNCHANGED <<ops, pending_ops, closest_adults, chunks, full_adults, adults, node_vars>>

NextFind == FindUnresponsiveAdults

SpecFind == InitFind /\ [][NextFind]_vars

\* The adults named in the result of the call.
Reported == {r[1] : r \in history.reported}

\* The neighbours recorded for a.
Neighbours(a) == {closest_adults[a][i] : i \in 1..Len(closest_adults[a])}

\* The tracker with the pending count of n set to v.
WithPending(n, v) == Tracker(ops, [pending_ops EXCEPT ![n] = v], closest_adults)

Unresponsive(t) == {r[1] : r \in find_unresponsive_adults(t)}

\* C5: the call returns (a, pending_ops[a]) exactly for the adults a that have
\* a neighbour and for which p > 10, some neighbour has more than 10 pending
\* ops, and p > 10 * q for every neighbour's count q; p = 120 with neighbours
\* at 8 and 9 is not reported, p = 140 with neighbour maximum 11 is reported
\* with count 140.
ReportedIffDualThreshold ==
    history.status = "called" =>
        /\ history.reported \subseteq {<<a, pending_ops[a]>> : a \in DOMAIN closest_adults}
        /\ \A a \in DOMAIN closest_adults :
               (a \in Reported) <=>
                   /\ Neighbours(a) # {}
                   /\ pending_ops[a] > 10
                   /\ (\E n \in Neighbours(a) : pending_ops[n] > 10)
                   /\ (\A m \in Neighbours(a) : pending_ops[a] > 10 * pending_ops[m])
        /\ \A a \in DOMAIN closest_adults :
               /\ (pending_ops[a] = 120 /\ {pending_ops[n] : n \in Neighbours(a)} = {8, 9})
                      => a \notin Reported
               /\ (pending_ops[a] = 140 /\ Neighbours(a) # {}
                       /\ (\A n \in Neighbours(a) : pending_ops[n] <= 11)
                       /\ (\E m \in Neighbours(a) : pending_ops[m] = 11))
                      => <<a, 140>> \in history.reported

\* C5 witness: the call reported exactly one adult, with 140 pending ops and
\* neighbours at 11 and 9.
ScenarioReported ==
    /\ history.status = "called"
    /\ \E a \in DOMAIN closest_adults :
           /\ history.reported = {<<a, 140>>}
           /\ {pending_ops[n] : n \in Neighbours(a)} = {11, 9}

\* C6: with the keys and the other counts fixed, a reported adult stays
\* reported when its own pending count grows, and an adult that is not
\* reported stays so when its own count shrinks.
MonotoneInOwnPending ==
    history.status = "called" =>
        \A a \in DOMAIN closest_adults : \A v \in PendingValues :
            /\ (v >= pending_ops[a] /\ a \in Reported)
                   => a \in Unresponsive(WithPending(a, v))
            /\ (v <= pending_ops[a] /\ a \notin Reported)
                   => a \notin Unresponsive(WithPending(a, v))

\* C6 witness: a reported adult that a smaller count of its own would not
\* have reported.
ReportedOnlyAboveRatio ==
    /\ history.status = "called"
    /\ \E a \in Reported : \E v \in PendingValues :
           /\ v > MIN_PENDING_OPS
           /\ v < pending_ops[a]
           /\ a \notin Unresponsive(WithPending(a, v))

\* C7 as claimed: with the keys and the count of a fixed, an adult a that is
\* not reported stays so when the pending count of one of its neighbours grows.
NeighbourGrowthNeverAdds ==
    history.status = "called" =>
        \A a \in DOMAIN closest_adults : \A n \in Neighbours(a) : \A v \in PendingValues :
            (v >= pending_ops[n] /\ a \notin Reported)
                => a \notin Unresponsive(WithPending(n, v))

\* C7 as amended: the same, for an adult a one of whose neighbours already
\* has more than MIN_PENDING_OPS pending ops before the growth.
NeighbourGrowthAboveFloorNeverAdds ==
    history.status = "called" =>
        \A a \in DOMAIN closest_adults : \A n \in Neighbours(a) : \A v \in PendingValues :
            (/\ v >= pending_ops[n]
             /\ a \notin Reported
             /\ \E m \in Neighbours(a) : pending_ops[m] > MIN_PENDING_OPS)
                => a \notin Unresponsive(WithPending(n, v))

\* C7 witness: an adult with more than ten times its neighbours' counts that
\* is not reported, one neighbour being above MIN_PENDING_OPS and the other
\* below it; the growth of the lower one does not add the adult.
UnreportedAboveFloor ==
    /\ history.status = "called"
    /\ \E a \in DOMAIN closest_adults : \E n \in Neighbours(a) :
           /\ a \notin Reported
           /\ pending_ops[a] = 110
           /\ pending_ops[n] = 9
           /\ \E m \in Neighbours(a) : pending_ops[m] = 11
           /\ a \notin Unresponsive(WithPending(n, 11))

\* ------------------------------------------------------------ ChunkStorage
PublicBlob(contents) == [kind |-> "Public", contents |-> contents, owner |-> "none"]

PrivateBlob(contents, owner) == [kind |-> "Private", contents |-> contents, owner |-> owner]

Blobs ==
    {PublicBlob(c) : c \in 1..MaxContent}
        \cup {PrivateBlob(c, k) : c \in 1..MaxContent, k \in Keys}

\* Blob::address(): the variant and a name derived from the contents, and
\* from the owner too for a private blob; different blobs, different names.
Address(blob) ==
    [kind |-> blob.kind,
     name |-> IF blob.kind = "Public" THEN <<blob.contents>>
              ELSE <<blob.contents, blob.owner>>]

BlobAddresses == {Address(b) : b \in Blobs}

\* The chunk store: a map from address to blob. io tells whether the disk
\* does what it is asked to in this call.
Ok(c) == [c |-> c, ok |-> TRUE, err |-> "none"]

Err(c, e) == [c |-> c, ok |-> FALSE, err |-> e]

chunks_has(c, address) == address \in DOMAIN c

chunks_get(c, address) ==
    IF address \in DOMAIN c
    THEN [ok |-> TRUE, blob |-> c[address], err |-> "none"]
    ELSE [ok |-> FALSE, blob |-> "none", err |-> "NoSuchKey"]

chunks_put(c, blob, io) ==
    IF ~io THEN Err(c, "Io")
    ELSE IF Address(blob) \notin DOMAIN c /\ Cardinality(DOMAIN c) >= MaxCapacity
         THEN Err(c, "NotEnoughSpace")
         ELSE Ok(Insert(c, Address(blob), blob))

chunks_delete(c, address, io) ==
    IF ~io THEN Err(c, "Io")
    ELSE IF address \notin DOMAIN c THEN Err(c, "NoSuchKey")
         ELSE Ok(Remove(c, address))

\* try_store that reports success whatever the store answered to put.
try_store_ignoring_put(c, data, io) ==
    IF chunks_has(c, Address(data)) THEN Err(c, "DataExists")
    ELSE Ok(chunks_put(c, data, io).c)

try_store(c, data, io) ==
    IF chunks_has(c, Address(data)) THEN Err(c, "DataExists")
    ELSE chunks_put(c, data, io)

get_chunk(c, address) == chunks_get(c, address)

delete_chunk(c, address, io) == chunks_delete(c, address, io)

\* MessageId::in_response_to
InResponseTo(msg_id) == <<"in_response_to", msg_id>>

NoOp == [kind |-> "NoOp"]

\* The duty that sends ChunkWriteHandled(result) to the elders of the section
\* of the address.
ChunkWriteHandled(ok, error, msg_id, address) ==
    [kind |-> "Send",
     event |-> [ChunkWriteHandled |-> [ok |-> ok, error |-> error]],
     id |-> InResponseTo(msg_id),
     correlation_id |-> msg_id,
     section_source |-> FALSE,
     dst |-> [section |-> address.name],
     aggregation |-> "None"]

InvalidOwners(key) == [kind |-> "InvalidOwners", key |-> key]

InvalidOperation(msg_id) == [kind |-> "InvalidOperation", msg_id |-> msg_id]

Failure(kind) == [kind |-> kind]

\* convert_to_error_message: the error as the message carries it.
convert_to_error_message(error) == [ErrorMessage |-> error]

\* What store returns in place of a duty when convert_to_error_message(other)?
\* returns early with the error of the conversion.
NoErrorMapping(error) == [kind |-> "Err", error |-> [NoErrorMapping |-> error]]

\* store that hands the DataExists of try_store on as an error.
store_reporting_existing(c, data, msg_id, io, mapped) ==
    LET r == try_store(c, data, io)
    IN  [c |-> r.c,
         duty |-> IF ~r.ok /\ ~mapped
                  THEN NoErrorMapping(r.err)
                  ELSE ChunkWriteHandled(r.ok,
                           IF r.ok THEN "none" ELSE convert_to_error_message(r.err),
                           msg_id, Address(data))]

\* ChunkStorage::store: Ok(()) and Err(DataExists) of try_store are both Ok(()).
\* Any other error goes through convert_to_error_message(other)?, which is
\* fallible here: mapped tells whether the conversion has a message for the
\* error; when it has none store returns the error of the conversion and no
\* duty.
store(c, data, msg_id, io, mapped) ==
    LET r == try_store(c, data, io)
        ok == r.ok \/ r.err = "DataExists"
    IN  [c |-> r.c,
         duty |-> IF ~ok /\ ~mapped
                  THEN NoErrorMapping(r.err)
                  ELSE ChunkWriteHandled(ok,
                           IF ok THEN "none" ELSE convert_to_error_message(r.err),
                           msg_id, Address(data))]

\* ChunkStorage::store_for_replication: a blob whose address is stored is left
\* as it is and the call returns Ok(()); otherwise what put returns.
store_for_replication(c, blob, io) ==
    IF chunks_has(c, Address(blob)) THEN Ok(c)
    ELSE chunks_put(c, blob, io)

\* delete that removes a private blob whoever asks.
delete_without_owner_check(c, address, msg_id, origin, io) ==
    IF ~chunks_has(c, address) THEN [c |-> c, duty |-> NoOp]
    ELSE LET got == chunks_get(c, address)
         IN  IF got.blob.kind = "Private"
             THEN LET d == delete_chunk(c, address, io)
                  IN  [c |-> d.c,
                       duty |-> ChunkWriteHandled(d.ok,
                                    IF d.ok THEN "none" ELSE Failure("FailedToDelete"),
                                    msg_id, address)]
             ELSE [c |-> c,
                   duty |-> ChunkWriteHandled(FALSE, InvalidOperation(msg_id),
                                              msg_id, address)]

\* delete that treats a public blob as one that anyone may delete.
delete_public_too(c, address, msg_id, origin, io) ==
    IF ~chunks_has(c, address) THEN [c |-> c, duty |-> NoOp]
    ELSE LET got == chunks_get(c, address)
         IN  IF got.blob.kind = "Public" \/ got.blob.owner = origin
             THEN LET d == delete_chunk(c, address, io)
                  IN  [c |-> d.c,
                       duty |-> ChunkWriteHandled(d.ok,
                                    IF d.ok THEN "none" ELSE Failure("FailedToDelete"),
                                    msg_id, address)]
             ELSE [c |-> c,
                   duty |-> ChunkWriteHandled(FALSE, InvalidOwners(origin),
                                              msg_id, address)]

\* ChunkStorage::delete; origin is the key of the end user, origin.id().
delete(c, address, msg_id, origin, io) ==
    IF ~chunks_has(c, address) THEN [c |-> c, duty |-> NoOp]
    ELSE LET got == chunks_get(c, address)
         IN  IF got.ok /\ got.blob.kind = "Private"
             THEN IF got.blob.owner = origin
                  THEN LET d == delete_chunk(c, address, io)
                       IN  [c |-> d.c,
                            duty |-> ChunkWriteHandled(d.ok,
                                         IF d.ok THEN "none" ELSE Failure("FailedToDelete"),
                                         msg_id, address)]
                  ELSE [c |-> c,
                        duty |-> ChunkWriteHandled(FALSE, InvalidOwners(origin),
                                                   msg_id, address)]
             ELSE IF got.ok
                  THEN [c |-> c,
                        duty |-> ChunkWriteHandled(FALSE, InvalidOperation(msg_id),
                                                   msg_id, address)]
                  ELSE [c |-> c,
                        duty |-> ChunkWriteHandled(FALSE, Failure("NoSuchKey"),
                                                   msg_id, address)]

\* ---------------------------------------- SpecChunks: the adult's ChunkStorage
\* history is the last call, its arguments and what it returned.
InitChunks ==
    /\ chunks = <<>>
    /\ full_adults = {}
    /\ adults = {}
    /\ NodeNotStarted
    /\ ops = New.ops
    /\ pending_ops = New.pending_ops
    /\ closest_adults = New.closest_adults
    /\ history = [op |-> "new"]

TryStore ==
    \E data \in Blobs, io \in BOOLEAN :
        LET r == try_store(chunks, data, io)
        IN  /\ chunks' = r.c
            /\ history' = [op |-> "try_store", address |-> Address(data), blob |-> data,
                           ok |-> r.ok, err |-> r.err]
            /\ UNCHANGED <<ops, pending_ops, closest_adults, full_adults, adults, node_vars>>

GetChunk ==
    \E address \in BlobAddresses :
        /\ history' = [op |-> "get_chunk", address |-> address,
                       got |-> get_chunk(chunks, address)]
        /\ UNCHANGED <<ops, pending_ops, closest_adults, chunks, full_adults, adults, node_vars>>

DeleteChunk ==
    \E address \in BlobAddresses, io \in BOOLEAN :
        LET r == delete_chunk(chunks, address, io)
        IN  /\ chunks' = r.c
            /\ history' = [op |-> "delete_chunk", address |-> address,
                           ok |-> r.ok, err |-> r.err]
            /\ UNCHANGED <<ops, pending_ops, closest_adults, full_adults, adults, node_vars>>

Delete ==
    \E address \in BlobAddresses, msg_id \in MsgIds, origin \in Keys, io \in BOOLEAN :
        LET r == delete(chunks, address, msg_id, origin, io)
        IN  /\ chunks' = r.c
            /\ history' = [op |-> "delete", address |-> address, msg_id |-> msg_id,
                           origin |-> origin, duty |-> r.duty]
            /\ UNCHANGED <<ops, pending_ops, closest_adults, full_adults, adults, node_vars>>

\* had tells whether the address of the blob was stored when store was called.
Store ==
    \E data \in Blobs, msg_id \in MsgIds, io \in BOOLEAN, mapped \in BOOLEAN :
        LET r == store(chunks, data, msg_id, io, mapped)
        IN  /\ chunks' = r.c
            /\ history' = [op |-> "store", address |-> Address(data), blob |-> data,
                           msg_id |-> msg_id, had |-> chunks_has(chunks, Address(data)),
                           duty |-> r.duty]
            /\ UNCHANGED <<ops, pending_ops, closest_adults, full_adults, adults, node_vars>>

\* store_for_replication returns no duty.
StoreForReplication ==
    \E blob \in Blobs, io \in BOOLEAN :
        LET r == store_for_replication(chunks, blob, io)
        IN  /\ chunks' = r.c
            /\ history' = [op |-> "store_for_replication", address |-> Address(blob),
                           blob |-> blob, ok |-> r.ok, err |-> r.err]
            /\ UNCHANGED <<ops, pending_ops, closest_adults, full_adults, adults, node_vars>>

NextChunks ==
    \/ Store
    \/ StoreForReplication
    \/ TryStore
    \/ GetChunk
    \/ DeleteChunk
    \/ Delete

SpecChunks == InitChunks /\ [][NextChunks]_vars

\* The addresses other than the one the last call was about hold what they
\* held before it.
OthersUntouched(address) ==
    \A other \in BlobAddresses \ {address} :
        /\ (other \in DOMAIN chunks') <=> (other \in DOMAIN chunks)
        /\ other \in DOMAIN chunks => chunks'[other] = chunks[other]

\* C8: after a successful try_store of a blob, has(address) holds and
\* get_chunk(address) returns that blob; after a successful
\* delete_chunk(address), has(address) is false and get_chunk(address) fails;
\* either call leaves every other stored address as it was.
StoreGetDeleteRoundTrip ==
    [][/\ (history'.op = "try_store" /\ history'.ok) =>
              /\ chunks_has(chunks', history'.address)
              /\ get_chunk(chunks', history'.address).ok
              /\ get_chunk(chunks', history'.address).blob = history'.blob
       /\ (history'.op = "delete_chunk" /\ history'.ok) =>
              /\ chunks_has(chunks, history'.address)
              /\ ~chunks_has(chunks', history'.address)
              /\ ~get_chunk(chunks', history'.address).ok
       /\ history'.op \in {"try_store", "delete_chunk"} =>
              OthersUntouched(history'.address)]_vars

\* C8 witness: a blob was stored and then removed by delete_chunk, while
\* another blob stays stored.
StoredThenDeleted ==
    /\ history.op = "delete_chunk"
    /\ history.ok
    /\ history.address \notin DOMAIN chunks
    /\ DOMAIN chunks # {}

\* The private blob stored at the address of the last delete call, if any.
PrivateAt(c, address) == address \in DOMAIN c /\ c[address].kind = "Private"

\* C9: delete(address, msg_id, origin) removes a stored private blob only when
\* origin.id() is the owner of the blob; when the owner differs, the reply is
\* ChunkWriteHandled(Err(InvalidOwners(origin.id))) and the stored blobs are
\* unchanged.
PrivateDeleteNeedsOwner ==
    [][(history'.op = "delete" /\ PrivateAt(chunks, history'.address)) =>
          /\ chunks' # chunks => chunks[history'.address].owner = history'.origin
          /\ chunks[history'.address].owner # history'.origin =>
                 /\ chunks' = chunks
                 /\ history'.duty =
                        ChunkWriteHandled(FALSE, InvalidOwners(history'.origin),
                                          history'.msg_id, history'.address)]_vars

\* C9 witness: delete was called on a stored private blob by a key that is
\* not its owner, it answered InvalidOwners and the blob is still stored.
DeleteRefusedToStranger ==
    /\ history.op = "delete"
    /\ PrivateAt(chunks, history.address)
    /\ chunks[history.address].owner # history.origin
    /\ history.duty.kind = "Send"
    /\ history.duty.event.ChunkWriteHandled.error = InvalidOwners(history.origin)

\* C10: delete on an address at which a public blob is stored replies
\* ChunkWriteHandled(Err(InvalidOperation)) for every origin, and the blob
\* remains stored.
PublicDeleteRejected ==
    [][(/\ history'.op = "delete"
        /\ history'.address \in DOMAIN chunks
        /\ chunks[history'.address].kind = "Public") =>
          /\ chunks' = chunks
          /\ history'.duty =
                 ChunkWriteHandled(FALSE, InvalidOperation(history'.msg_id),
                                   history'.msg_id, history'.address)]_vars

\* C10 witness: delete was called on a stored public blob, it answered
\* InvalidOperation and the blob is still stored.
PublicBlobSurvivesDelete ==
    /\ history.op = "delete"
    /\ history.address \in DOMAIN chunks
    /\ chunks[history.address].kind = "Public"
    /\ history.duty.kind = "Send"
    /\ history.duty.event.ChunkWriteHandled.error.kind = "InvalidOperation"

\* C15: store(blob, msg_id) on a blob whose address is already stored replies
\* ChunkWriteHandled(Ok(())) with correlation id msg_id and leaves the stored
\* blobs unchanged; the reply is the one of a first store that succeeds, so a
\* blob that is stored can be stored again any number of times without an
\* error being reported or returned. Every reply of store has correlation id
\* msg_id.
StoreIsIdempotent ==
    [][history'.op = "store" =>
          LET reply == ChunkWriteHandled(TRUE, "none", history'.msg_id, history'.address)
          IN  /\ chunks_has(chunks, history'.address) =>
                     /\ chunks' = chunks
                     /\ history'.duty = reply
              /\ history'.duty.kind = "Send" =>
                     /\ history'.duty.event.ChunkWriteHandled.ok => history'.duty = reply
                     /\ history'.duty.correlation_id = history'.msg_id]_vars

\* C15 witness: store was called on a blob that was stored already, it
\* replied ChunkWriteHandled(Ok(())) and the blob is stored as before.
StoredAgain ==
    /\ history.op = "store"
    /\ history.had
    /\ history.duty.kind = "Send"
    /\ history.duty.event.ChunkWriteHandled.ok
    /\ chunks_has(chunks, history.address)
    /\ chunks[history.address] = history.blob

\* ------------------------------------------------------------- BlobRecords
\* BlobRecords as a value: the full adults, the adults of the section that the
\* reader reports, and the liveness tracker.
BlobRecords(f, a, t) == [full_adults |-> f, reader |-> a, adult_liveness |-> t]

SetOf(seq) == {seq[i] : i \in 1..Len(seq)}

\* The XorName of a chunk: where its address lies among the names. The names
\* of the model are few, so two blobs may lie at the same place.
ChunkName(address) == address.name[1]

\* reader.our_prefix()
our_prefix == "prefix"

\* reader.non_full_adults_closest_to(name, full_adults, count): up to count
\* adults of the section that are not full, nearest to name first.
non_full_adults_closest_to(section, name, full, count) ==
    Take(SortedByDistance(name, section \ full), count)

\* get_holders_for_chunk that asks the reader for the closest adults, full or
\* not.
get_holders_including_full(br, target) ==
    non_full_adults_closest_to(br.reader, target, {}, CHUNK_COPY_COUNT)

get_holders_for_chunk(br, target) ==
    non_full_adults_closest_to(br.reader, target, br.full_adults, CHUNK_COPY_COUNT)

ClientSigned(key) == [public_key |-> key]

BlobWriteNew(data) == [BlobWrite |-> "New", data |-> data]

BlobWriteDeletePrivate(address) == [BlobWrite |-> "DeletePrivate", address |-> address]

BlobWrites ==
    {BlobWriteNew(b) : b \in Blobs} \cup {BlobWriteDeletePrivate(a) : a \in BlobAddresses}

BlobReadGet(address) == [BlobRead |-> "Get", address |-> address]

NoAdults(prefix) == [kind |-> "NoAdults", prefix |-> prefix]

SendToNodes(targets, msg, aggregation) ==
    [kind |-> "SendToNodes", targets |-> targets, msg |-> msg, aggregation |-> aggregation]

NodeCmdChunks(cmd, client_signed, origin, id) ==
    [NodeCmd |-> "Chunks", cmd |-> cmd, client_signed |-> client_signed,
     origin |-> origin, id |-> id]

NodeCmdReplicateChunk(data, id) ==
    [NodeCmd |-> "System", cmd |-> [ReplicateChunk |-> data], id |-> id]

NodeQueryChunks(query, origin, id) ==
    [NodeQuery |-> "Chunks", query |-> query, origin |-> origin, id |-> id]

\* MessageId::from_content
from_content(name, owner, target_holders) == <<"from_content", name, owner, target_holders>>

\* build_client_error_response and build_client_query_response: the message
\* to the end user, in response to correlation_id.
build_client_error_response(error, msg_id, origin) ==
    [msg |-> [CmdError |-> error, id |-> InResponseTo(msg_id), correlation_id |-> msg_id],
     section_source |-> FALSE,
     dst |-> [end_user |-> origin],
     aggregation |-> "None"]

build_client_query_response(response, correlation_id, origin) ==
    [msg |-> [QueryResponse |-> response, id |-> InResponseTo(correlation_id),
              correlation_id |-> correlation_id],
     section_source |-> FALSE,
     dst |-> [end_user |-> origin],
     aggregation |-> "None"]

Send(msg) == [kind |-> "Send", send |-> msg]

ProposeOffline(unresponsive_adults) ==
    [kind |-> "ProposeOffline", adults |-> unresponsive_adults]

send_error(error, msg_id, origin) ==
    Send(build_client_error_response([Data |-> convert_to_error_message(error)],
                                     msg_id, origin))

\* validate_data_owner that lets any requester store a private blob.
validate_any_owner(data, requester) == [ok |-> TRUE, err |-> "none"]

validate_data_owner(data, requester) ==
    IF data.kind = "Private"
    THEN IF data.owner # requester
         THEN [ok |-> FALSE, err |-> InvalidOwners(requester)]
         ELSE [ok |-> TRUE, err |-> "none"]
    ELSE [ok |-> TRUE, err |-> "none"]

\* send_chunks_to_adults that sends to no one when there is no holder.
send_chunks_unchecked(br, data, msg_id, client_signed, origin) ==
    SendToNodes(SetOf(get_holders_for_chunk(br, ChunkName(Address(data)))),
                NodeCmdChunks(BlobWriteNew(data), client_signed, origin, msg_id),
                "AtDestination")

send_chunks_to_adults(br, data, msg_id, client_signed, origin) ==
    LET target_holders == SetOf(get_holders_for_chunk(br, ChunkName(Address(data))))
    IN  IF target_holders = {}
        THEN send_error(NoAdults(our_prefix), msg_id, origin)
        ELSE SendToNodes(target_holders,
                         NodeCmdChunks(BlobWriteNew(data), client_signed, origin, msg_id),
                         "AtDestination")

\* BlobRecords::store
blob_records_store(br, data, msg_id, client_signed, origin) ==
    LET checked == validate_data_owner(data, client_signed.public_key)
    IN  IF ~checked.ok
        THEN send_error(checked.err, msg_id, origin)
        ELSE send_chunks_to_adults(br, data, msg_id, client_signed, origin)

\* BlobRecords::delete
blob_records_delete(br, address, msg_id, client_signed, origin) ==
    SendToNodes(SetOf(get_holders_for_chunk(br, ChunkName(address))),
                NodeCmdChunks(BlobWriteDeletePrivate(address), client_signed, origin, msg_id),
                "AtDestination")

\* BlobRecords::write
write(br, w, msg_id, client_signed, origin) ==
    IF w.BlobWrite = "New"
    THEN blob_records_store(br, w.data, msg_id, client_signed, origin)
    ELSE blob_records_delete(br, w.address, msg_id, client_signed, origin)

republish_chunk(br, data) ==
    LET target_holders == SetOf(get_holders_for_chunk(br, ChunkName(Address(data))))
        msg_id == from_content(ChunkName(Address(data)), data.owner, target_holders)
    IN  SendToNodes(target_holders, NodeCmdReplicateChunk(data, msg_id), "None")

\* A write that registers the op it sends out in the tracker, as a read does.
write_registering(br, w, msg_id, client_signed, origin) ==
    LET duty == write(br, w, msg_id, client_signed, origin)
        address == IF w.BlobWrite = "New" THEN Address(w.data) ELSE w.address
    IN  IF duty.kind = "SendToNodes"
        THEN [br EXCEPT !.adult_liveness =
                 new_write(@, msg_id, origin, address, duty.targets).t]
        ELSE br

\* The records after BlobRecords::write: store, send_chunks_to_adults and
\* delete read the reader and full_adults and assign no field of self.
records_after_write(br, w, msg_id, client_signed, origin) == br

\* The records after BlobRecords::republish_chunk, which assigns no field of
\* self either.
records_after_republish_chunk(br, data) == br

\* BlobRecords::get that leaves the full adults out of the targets of a read.
get_without_full_adults(br, address, msg_id, origin) ==
    LET targets == SetOf(get_holders_for_chunk(br, ChunkName(address)))
    IN  IF targets = {}
        THEN [br |-> br, duty |-> send_error(NoAdults(our_prefix), msg_id, origin)]
        ELSE LET r == new_read(br.adult_liveness, msg_id, address, origin, targets)
             IN  IF r.ret
                 THEN [br |-> [br EXCEPT !.adult_liveness = r.t],
                       duty |-> SendToNodes(targets,
                                    NodeQueryChunks(BlobReadGet(address), origin, msg_id),
                                    "None")]
                 ELSE [br |-> br, duty |-> NoOp]

\* BlobRecords::get that fans out again for an op that is in flight.
get_fanning_out_again(br, address, msg_id, origin) ==
    LET targets == SetOf(get_holders_for_chunk(br, ChunkName(address))) \cup br.full_adults
    IN  IF targets = {}
        THEN [br |-> br, duty |-> send_error(NoAdults(our_prefix), msg_id, origin)]
        ELSE [br |-> [br EXCEPT !.adult_liveness =
                         new_read(br.adult_liveness, msg_id, address, origin, targets).t],
              duty |-> SendToNodes(targets,
                           NodeQueryChunks(BlobReadGet(address), origin, msg_id),
                           "None")]

\* BlobRecords::get: the records after the call, and the duty returned.
blob_records_get(br, address, msg_id, origin) ==
    LET targets == SetOf(get_holders_for_chunk(br, ChunkName(address))) \cup br.full_adults
    IN  IF targets = {}
        THEN [br |-> br, duty |-> send_error(NoAdults(our_prefix), msg_id, origin)]
        ELSE LET r == new_read(br.adult_liveness, msg_id, address, origin, targets)
             IN  IF r.ret
                 THEN [br |-> [br EXCEPT !.adult_liveness = r.t],
                       duty |-> SendToNodes(targets,
                                    NodeQueryChunks(BlobReadGet(address), origin, msg_id),
                                    "None")]
                 ELSE [br |-> br, duty |-> NoOp]

\* BlobRecords::read
read(br, r, msg_id, origin) == blob_records_get(br, r.address, msg_id, origin)

\* QueryResponse::GetBlob(Ok(_)) and GetBlob(Err(_)), and a response of
\* another variant.
GetBlob(ok) == [QueryResponse |-> "GetBlob", ok |-> ok]

GetMap(ok) == [QueryResponse |-> "GetMap", ok |-> ok]

QueryResponses == {GetBlob(TRUE), GetBlob(FALSE), GetMap(TRUE)}

is_success(response) == response.ok

Logic == [kind |-> "Logic"]

\* BlobRecords::record_adult_read_liveness that forwards a successful
\* response only.
record_forwarding_success_only(br, correlation_id, response, src) ==
    IF response.QueryResponse # "GetBlob"
    THEN [br |-> br, ok |-> FALSE, err |-> Logic, duties |-> <<>>]
    ELSE LET r == record_adult_read_liveness(br.adult_liveness, correlation_id, src)
             unresponsive_adults == {u[1] : u \in find_unresponsive_adults(r.t)}
         IN  [br |-> [br EXCEPT !.adult_liveness = r.t],
              ok |-> TRUE,
              err |-> "none",
              duties |->
                  (IF r.ret.some /\ is_success(response)
                   THEN <<Send(build_client_query_response(response, correlation_id,
                                                           r.ret.origin))>>
                   ELSE <<>>)
                  \o (IF unresponsive_adults # {}
                      THEN <<ProposeOffline(unresponsive_adults)>>
                      ELSE <<>>)]

\* BlobRecords::record_adult_read_liveness that forwards the failure of a full
\* adult as well.
record_forwarding_every_response(br, correlation_id, response, src) ==
    IF response.QueryResponse # "GetBlob"
    THEN [br |-> br, ok |-> FALSE, err |-> Logic, duties |-> <<>>]
    ELSE LET r == record_adult_read_liveness(br.adult_liveness, correlation_id, src)
             unresponsive_adults == {u[1] : u \in find_unresponsive_adults(r.t)}
         IN  [br |-> [br EXCEPT !.adult_liveness = r.t],
              ok |-> TRUE,
              err |-> "none",
              duties |->
                  (IF r.ret.some
                   THEN <<Send(build_client_query_response(response, correlation_id,
                                                           r.ret.origin))>>
                   ELSE <<>>)
                  \o (IF unresponsive_adults # {}
                      THEN <<ProposeOffline(unresponsive_adults)>>
                      ELSE <<>>)]

\* BlobRecords::record_adult_read_liveness that does the tracker's bookkeeping
\* before it looks at the variant of the response.
record_bookkeeping_before_check(br, correlation_id, response, src) ==
    LET r == record_adult_read_liveness(br.adult_liveness, correlation_id, src)
        unresponsive_adults == {u[1] : u \in find_unresponsive_adults(r.t)}
    IN  IF response.QueryResponse # "GetBlob"
        THEN [br |-> [br EXCEPT !.adult_liveness = r.t],
              ok |-> FALSE, err |-> Logic, duties |-> <<>>]
        ELSE [br |-> [br EXCEPT !.adult_liveness = r.t],
              ok |-> TRUE,
              err |-> "none",
              duties |->
                  (IF r.ret.some /\ ~(src \in br.full_adults /\ ~is_success(response))
                   THEN <<Send(build_client_query_response(response, correlation_id,
                                                           r.ret.origin))>>
                   ELSE <<>>)
                  \o (IF unresponsive_adults # {}
                      THEN <<ProposeOffline(unresponsive_adults)>>
                      ELSE <<>>)]

\* BlobRecords::record_adult_read_liveness that looks for unresponsive adults
\* before the tracker's bookkeeping of the response.
record_proposing_before_bookkeeping(br, correlation_id, response, src) ==
    IF response.QueryResponse # "GetBlob"
    THEN [br |-> br, ok |-> FALSE, err |-> Logic, duties |-> <<>>]
    ELSE LET r == record_adult_read_liveness(br.adult_liveness, correlation_id, src)
             unresponsive_adults ==
                 {u[1] : u \in find_unresponsive_adults(br.adult_liveness)}
         IN  [br |-> [br EXCEPT !.adult_liveness = r.t],
              ok |-> TRUE,
              err |-> "none",
              duties |->
                  (IF r.ret.some /\ ~(src \in br.full_adults /\ ~is_success(response))
                   THEN <<Send(build_client_query_response(response, correlation_id,
                                                           r.ret.origin))>>
                   ELSE <<>>)
                  \o (IF unresponsive_adults # {}
                      THEN <<ProposeOffline(unresponsive_adults)>>
                      ELSE <<>>)]

\* BlobRecords::record_adult_read_liveness: the records after the call,
\* Ok(duties) or Err(Logic). The tracker takes the message id and the source
\* (adult_liveness.rs 158-171); whether the response is a success plays no
\* part in it.
blob_records_record_adult_read_liveness(br, correlation_id, response, src) ==
    IF response.QueryResponse # "GetBlob"
    THEN [br |-> br, ok |-> FALSE, err |-> Logic, duties |-> <<>>]
    ELSE LET r == record_adult_read_liveness(br.adult_liveness, correlation_id, src)
             unresponsive_adults == {u[1] : u \in find_unresponsive_adults(r.t)}
         IN  [br |-> [br EXCEPT !.adult_liveness = r.t],
              ok |-> TRUE,
              err |-> "none",
              duties |->
                  (IF r.ret.some /\ ~(src \in br.full_adults /\ ~is_success(response))
                   THEN <<Send(build_client_query_response(response, correlation_id,
                                                           r.ret.origin))>>
                   ELSE <<>>)
                  \o (IF unresponsive_adults # {}
                      THEN <<ProposeOffline(unresponsive_adults)>>
                      ELSE <<>>)]

increase_full_node_count(br, node_id) ==
    [br EXCEPT !.full_adults = @ \cup {node_id}]

\* BlobRecords::update: blob_data is the set full_adults of a BlobDataExchange.
update(br, blob_data) == [br EXCEPT !.full_adults = @ \cup blob_data]

\* BlobRecords::retain_members_only that leaves the tracker alone.
retain_full_adults_only(br, old_members, members) ==
    [br EXCEPT !.full_adults = @ \cap members]

\* BlobRecords::retain_members_only; old_members as for the tracker's.
blob_records_retain_members_only(br, old_members, members) ==
    [br EXCEPT !.full_adults = @ \cap members,
               !.adult_liveness = retain_members_only(@, old_members, members)]

\* ---------------------------------- SpecWrite and SpecRead: the BlobRecords
SelfRecords == BlobRecords(full_adults, adults, Self)

\* history[id] follows the read last registered under id:
\*   awaiting   the targets of the read that have not replied yet;
\*   replied    one of them replied with a successful GetBlob;
\*   forwarded  a successful GetBlob was sent to the end user;
\*   sent       the responses sent to the end user: 0, 1 or 2 for more than one.
NoRead == [awaiting |-> {}, replied |-> FALSE, forwarded |-> FALSE, sent |-> 0]

AfterGet(h, msg_id, duty) ==
    IF duty.kind = "SendToNodes"
    THEN [h EXCEPT ![msg_id] = [NoRead EXCEPT !.awaiting = duty.targets]]
    ELSE h

AfterReply(h, correlation_id, response, src, result) ==
    IF ~result.ok THEN h
    ELSE LET sends == Cardinality({i \in 1..Len(result.duties) :
                                      result.duties[i].kind = "Send"})
         IN  [h EXCEPT ![correlation_id] =
                 [awaiting |-> @.awaiting \ {src},
                  replied |-> @.replied \/ (src \in @.awaiting /\ is_success(response)),
                  forwarded |-> @.forwarded \/ (sends > 0 /\ is_success(response)),
                  sent |-> Min(2, @.sent + sends)]]

InitRecords ==
    /\ chunks = <<>>
    /\ full_adults = {}
    /\ adults = {}
    /\ NodeNotStarted
    /\ ops = New.ops
    /\ pending_ops = New.pending_ops
    /\ closest_adults = New.closest_adults
    /\ history = [id \in ReadIds |-> NoRead]

\* The records become br; the reader's section is not theirs to change.
RecordsBecome(br) ==
    /\ full_adults' = br.full_adults
    /\ ops' = br.adult_liveness.ops
    /\ pending_ops' = br.adult_liveness.pending_ops
    /\ closest_adults' = br.adult_liveness.closest_adults
    /\ UNCHANGED <<chunks, adults, node_vars>>

\* An adult of U joins the section or leaves it.
SectionChanges(U) ==
    \E name \in U :
        /\ adults' = IF name \in adults THEN adults \ {name} ELSE adults \cup {name}
        /\ UNCHANGED <<ops, pending_ops, closest_adults, chunks, full_adults, history, node_vars>>

IncreaseFullNodeCount(U) ==
    \E node_id \in U :
        /\ RecordsBecome(increase_full_node_count(SelfRecords, node_id))
        /\ UNCHANGED history

Update(U) ==
    \E blob_data \in SUBSET U :
        /\ RecordsBecome(update(SelfRecords, blob_data))
        /\ UNCHANGED history

RecordsRetainMembersOnly(U) ==
    \E members \in SUBSET U :
        /\ RecordsBecome(blob_records_retain_members_only(SelfRecords, OldMembers, members))
        /\ UNCHANGED history

\* write and republish_chunk return a duty and leave the records as they are
\* after the call.
Write ==
    \E w \in BlobWrites, msg_id \in MsgIds, key \in Keys, origin \in EndUsers :
        /\ write(SelfRecords, w, msg_id, ClientSigned(key), origin).kind
               \in {"Send", "SendToNodes"}
        /\ RecordsBecome(records_after_write(SelfRecords, w, msg_id,
                                             ClientSigned(key), origin))
        /\ UNCHANGED history

RepublishChunk ==
    \E data \in Blobs :
        /\ republish_chunk(SelfRecords, data).kind = "SendToNodes"
        /\ RecordsBecome(records_after_republish_chunk(SelfRecords, data))
        /\ UNCHANGED history

ReadAddresses == {Address(PublicBlob(c)) : c \in 1..MaxContent}

Read ==
    \E address \in ReadAddresses, msg_id \in ReadIds, origin \in EndUsers :
        LET r == read(SelfRecords, BlobReadGet(address), msg_id, origin)
        IN  /\ RecordsBecome(r.br)
            /\ history' = AfterGet(history, msg_id, r.duty)

RecordAdultReadLivenessOf(U) ==
    \E correlation_id \in ReadIds, response \in QueryResponses, src \in U :
        LET r == blob_records_record_adult_read_liveness(SelfRecords, correlation_id,
                                                         response, src)
        IN  /\ RecordsBecome(r.br)
            /\ history' = AfterReply(history, correlation_id, response, src, r)

NextWrite ==
    \/ SectionChanges(WriteNames)
    \/ IncreaseFullNodeCount(WriteNames)
    \/ Update(WriteNames)
    \/ RecordsRetainMembersOnly(WriteNames)
    \/ Write
    \/ RepublishChunk

SpecWrite == InitRecords /\ [][NextWrite]_vars

NextRead ==
    \/ SectionChanges(ReadNames)
    \/ IncreaseFullNodeCount(ReadNames)
    \/ Update(ReadNames)
    \/ RecordsRetainMembersOnly(ReadNames)
    \/ Read
    \/ RecordAdultReadLivenessOf(ReadNames)

SpecRead == InitRecords /\ [][NextRead]_vars

\* The adults of the section that are not full, nearest to the chunk first.
NonFullByDistance(address) == SortedByDistance(ChunkName(address), adults \ full_adults)

\* The holders of a chunk: the CHUNK_COPY_COUNT nearest adults that are not
\* full, or all of them when they are fewer.
Holders(address) == SetOf(Take(NonFullByDistance(address), CHUNK_COPY_COUNT))

\* The targets of a read: the holders, and the full adults.
ReadTargets(address) == Holders(address) \cup full_adults

\* C11: a read that produces a fan-out sends it to, and registers in the
\* tracker, a target set that holds every full adult that is a member of the
\* section, and the holders that are not full.
ReadIncludesFullAdults ==
    \A address \in ReadAddresses, msg_id \in ReadIds, origin \in EndUsers :
        LET r == read(SelfRecords, BlobReadGet(address), msg_id, origin)
        IN  r.duty.kind = "SendToNodes" =>
                /\ (full_adults \cap adults) \subseteq r.duty.targets
                /\ Holders(address) \subseteq r.duty.targets
                /\ r.br.adult_liveness.ops[msg_id].kind = "Read"
                /\ r.br.adult_liveness.ops[msg_id].targets = r.duty.targets

\* C11 witness: a read is in flight whose targets are a full adult of the
\* section and an adult that is not full, and a read of the same address under
\* a new id would go to both again.
ReadAwaitsFullAdult ==
    \E id \in DOMAIN ops :
        /\ ops[id].kind = "Read"
        /\ ops[id].targets \cap full_adults \cap adults # {}
        /\ ops[id].targets \ full_adults # {}
        /\ ops[id].targets = ReadTargets(ops[id].address)

\* C19: read(Get(address), msg_id, origin) with targets to send to returns a
\* fan-out of NodeQuery Get(address) to every target, with aggregation None,
\* exactly when no op is in the tracker under msg_id; when there is one it
\* returns NoOp and the records are as before; with no target it returns the
\* NoAdults error for the end user and the records are as before.
ReadFansOutUnlessInFlight ==
    \A address \in ReadAddresses, msg_id \in ReadIds, origin \in EndUsers :
        LET r == read(SelfRecords, BlobReadGet(address), msg_id, origin)
            fan_out == SendToNodes(ReadTargets(address),
                                   NodeQueryChunks(BlobReadGet(address), origin, msg_id),
                                   "None")
        IN  /\ ReadTargets(address) # {} =>
                   /\ r.duty = fan_out <=> msg_id \notin DOMAIN ops
                   /\ msg_id \in DOMAIN ops =>
                          /\ r.duty = NoOp
                          /\ r.br = SelfRecords
            /\ ReadTargets(address) = {} =>
                   /\ r.duty = send_error(NoAdults(our_prefix), msg_id, origin)
                   /\ r.br = SelfRecords

\* C19 witness: a read is in flight and has been counted for its targets, and
\* a read under its id returns NoOp.
ReadInFlightRefused ==
    \E id \in DOMAIN ops : \E address \in ReadAddresses :
        /\ ops[id].kind = "Read"
        /\ ReadTargets(address) # {}
        /\ \A n \in ops[id].targets : pending_ops[n] = 1
        /\ read(SelfRecords, BlobReadGet(address), id, "client").duty = NoOp

\* C13: once an adult among the targets of a read has replied with a
\* successful GetBlob, a successful GetBlob has been sent to the end user of
\* the read.
SuccessReachesClient ==
    \A id \in ReadIds : history[id].replied => history[id].forwarded

\* Whether the records send a response to the end user on this reply.
Forwards(correlation_id, response, src) ==
    \E i \in 1..Len(blob_records_record_adult_read_liveness(
                        SelfRecords, correlation_id, response, src).duties) :
        blob_records_record_adult_read_liveness(
            SelfRecords, correlation_id, response, src).duties[i]
          = Send(build_client_query_response(response, correlation_id, "client"))

\* C14 as claimed: at most one response per read reaches the end user.
AtMostOneResponsePerRead ==
    \A id \in ReadIds : history[id].sent <= 1

\* C14 as amended: a GetBlob response for correlation_id is sent to the end
\* user exactly when a read is registered under correlation_id at the time
\* the response comes in, unless it is a failure that comes from a full
\* adult; so every response that comes in before the last target has replied
\* reaches the end user, successful or not, first or not.
ForwardedWhileReadLive ==
    \A correlation_id \in ReadIds, src \in ReadNames, ok \in BOOLEAN :
        Forwards(correlation_id, GetBlob(ok), src) <=>
            /\ correlation_id \in DOMAIN ops
            /\ ops[correlation_id].kind = "Read"
            /\ ~(src \in full_adults /\ ~ok)

\* C14 witness: more than one response was sent to the end user for one read,
\* a successful one among them, and the read still awaits a target.
SecondResponseForwarded ==
    \E id \in ReadIds :
        /\ history[id].sent = 2
        /\ history[id].forwarded
        /\ id \in DOMAIN ops

\* C12: the fan-out of a write, be it the store of a new blob, DeletePrivate
\* or republish_chunk, goes to at most CHUNK_COPY_COUNT adults, none of which
\* is in full_adults.
WriteExcludesFullAdults ==
    /\ \A w \in BlobWrites, msg_id \in MsgIds, key \in Keys, origin \in EndUsers :
           LET duty == write(SelfRecords, w, msg_id, ClientSigned(key), origin)
           IN  duty.kind = "SendToNodes" =>
                   /\ Cardinality(duty.targets) <= 4
                   /\ duty.targets \cap full_adults = {}
    /\ \A data \in Blobs :
           LET duty == republish_chunk(SelfRecords, data)
           IN  /\ duty.kind = "SendToNodes"
               /\ Cardinality(duty.targets) <= 4
               /\ duty.targets \cap full_adults = {}

\* C12 witness: the section has more adults that are not full than a write
\* takes, and a full adult nearer to a chunk than every one of them; the
\* write of the chunk goes to CHUNK_COPY_COUNT of those that are not full.
WriteSkipsNearestFullAdult ==
    \E data \in Blobs, full \in full_adults \cap adults :
        LET duty == write(SelfRecords, BlobWriteNew(data), 1,
                          ClientSigned(data.owner), "client")
        IN  /\ Cardinality(adults \ full_adults) > CHUNK_COPY_COUNT
            /\ duty.kind = "SendToNodes"
            /\ Cardinality(duty.targets) = CHUNK_COPY_COUNT
            /\ \A n \in duty.targets :
                   Distance(ChunkName(Address(data)), full)
                       < Distance(ChunkName(Address(data)), n)

PrivateBlobs == {b \in Blobs : b.kind = "Private"}

PublicBlobs == {b \in Blobs : b.kind = "Public"}

\* C16: write(New(blob)) for a private blob whose owner is not the key of
\* client_signed returns the InvalidOwners error for the end user and no
\* fan-out; for a public blob the key plays no part in what is returned.
StoreChecksOwnerOfPrivate ==
    \A msg_id \in MsgIds, key \in Keys, origin \in EndUsers :
        /\ \A data \in PrivateBlobs :
               data.owner # key =>
                   write(SelfRecords, BlobWriteNew(data), msg_id, ClientSigned(key), origin)
                     = Send(build_client_error_response(
                                [Data |-> convert_to_error_message(InvalidOwners(key))],
                                msg_id, origin))
        /\ \A data \in PublicBlobs :
               LET duty == write(SelfRecords, BlobWriteNew(data), msg_id,
                                 ClientSigned(key), origin)
               IN  IF Holders(Address(data)) = {}
                   THEN duty = send_error(NoAdults(our_prefix), msg_id, origin)
                   ELSE /\ duty.kind = "SendToNodes"
                        /\ duty.msg.client_signed = ClientSigned(key)

\* C16 witness: there are holders for a private blob; its store is sent to
\* them when its owner asks, and refused to another key.
StoreRefusedToStranger ==
    \E data \in PrivateBlobs, key \in Keys :
        /\ key # data.owner
        /\ Holders(Address(data)) # {}
        /\ write(SelfRecords, BlobWriteNew(data), 1, ClientSigned(data.owner),
                 "client").kind = "SendToNodes"
        /\ write(SelfRecords, BlobWriteNew(data), 1, ClientSigned(key),
                 "client").kind = "Send"

\* The keys that pass the owner check for a blob.
MayStore(data) == IF data.kind = "Private" THEN {data.owner} ELSE Keys

\* C17: write(New(blob)) that passes the owner check returns the
\* NoAdults(our_prefix) error for the end user when there is no holder, and
\* otherwise one SendToNodes duty to exactly the holders, with aggregation
\* AtDestination and the message id of the client.
StoreFansOutToHolders ==
    \A data \in Blobs, msg_id \in MsgIds, origin \in EndUsers :
        \A key \in MayStore(data) :
            LET duty == write(SelfRecords, BlobWriteNew(data), msg_id,
                              ClientSigned(key), origin)
            IN  IF Holders(Address(data)) = {}
                THEN duty = Send(build_client_error_response(
                                     [Data |-> convert_to_error_message(NoAdults(our_prefix))],
                                     msg_id, origin))
                ELSE duty = SendToNodes(Holders(Address(data)),
                                NodeCmdChunks(BlobWriteNew(data), ClientSigned(key),
                                              origin, msg_id),
                                "AtDestination")

\* C17 witness: every adult of the section is full, so that a store has no
\* holder and is answered NoAdults.
StoreFindsAllAdultsFull ==
    /\ adults # {}
    /\ adults \subseteq full_adults
    /\ \E data \in Blobs :
           write(SelfRecords, BlobWriteNew(data), 1, ClientSigned(data.owner), "client")
             = send_error(NoAdults(our_prefix), 1, "client")

\* C18: write(DeletePrivate(address)) returns the NoAdults(our_prefix) error
\* for the end user when there is no holder that is not full, and otherwise
\* one fan-out to the holders with aggregation AtDestination.
DeleteMirrorsStore ==
    \A address \in BlobAddresses, msg_id \in MsgIds, key \in Keys, origin \in EndUsers :
        LET duty == write(SelfRecords, BlobWriteDeletePrivate(address), msg_id,
                          ClientSigned(key), origin)
        IN  IF Holders(address) = {}
            THEN duty = send_error(NoAdults(our_prefix), msg_id, origin)
            ELSE duty = SendToNodes(Holders(address),
                            NodeCmdChunks(BlobWriteDeletePrivate(address),
                                          ClientSigned(key), origin, msg_id),
                            "AtDestination")

\* ------------------------------------------ replies to a read, one at a time
\* The records with the read under id registered for end_user, and with a
\* write registered under id in its place.
ReadBy(id, end_user) ==
    IF id \in DOMAIN ops
    THEN [SelfRecords EXCEPT !.adult_liveness.ops[id].origin = end_user]
    ELSE SelfRecords

WriteInPlaceOf(id) ==
    IF id \in DOMAIN ops
    THEN [SelfRecords EXCEPT !.adult_liveness.ops[id] =
             WriteOp(@.address, @.origin, @.targets)]
    ELSE SelfRecords

\* The positions of the Send duties among the duties.
Sends(duties) == {i \in 1..Len(duties) : duties[i].kind = "Send"}

\* C21: when a GetBlob response comes in for a correlation id under which a
\* read is registered, one message goes out: the response, in response to the
\* correlation id, to the end user of that read; unless the source is a full
\* adult and the response a failure, and then no message goes out. When no
\* read is registered under the correlation id (nothing is, or a write is) no
\* message goes out to any end user.
ResponseGoesToEndUserOfRead ==
    \A correlation_id \in ReadIds, src \in ReadNames, ok \in BOOLEAN,
       end_user \in {"client", "other"} :
        LET r == blob_records_record_adult_read_liveness(
                     ReadBy(correlation_id, end_user), correlation_id, GetBlob(ok), src)
            w == blob_records_record_adult_read_liveness(
                     WriteInPlaceOf(correlation_id), correlation_id, GetBlob(ok), src)
        IN  /\ r.ok
            /\ Sends(w.duties) = {}
            /\ IF correlation_id \in DOMAIN ops /\ ops[correlation_id].kind = "Read"
               THEN IF src \in full_adults /\ ~ok
                    THEN Sends(r.duties) = {}
                    ELSE /\ Sends(r.duties) = {1}
                         /\ r.duties[1] = Send(build_client_query_response(
                                                   GetBlob(ok), correlation_id, end_user))
                         /\ r.duties[1].send.dst.end_user = end_user
               ELSE Sends(r.duties) = {}

\* C21 witness: a read awaits a full adult after a response was sent to its
\* end user; the failure of the full adult would be dropped and its success
\* would be sent.
FullAdultFailureDropped ==
    \E id \in DOMAIN ops : \E src \in ops[id].targets \cap full_adults :
        /\ ops[id].kind = "Read"
        /\ history[id].sent >= 1
        /\ blob_records_record_adult_read_liveness(
               SelfRecords, id, GetBlob(FALSE), src).duties = <<>>
        /\ Sends(blob_records_record_adult_read_liveness(
                     SelfRecords, id, GetBlob(TRUE), src).duties) = {1}

\* C22: a response that is not GetBlob is refused with Error::Logic, whatever
\* the correlation id and the source; no duty comes out, and the tracker's
\* ops, pending_ops and closest_adults and the full adults are as before.
NonGetBlobIsLogicError ==
    \A correlation_id \in MsgIds, src \in ReadNames, ok \in BOOLEAN :
        LET r == blob_records_record_adult_read_liveness(
                     SelfRecords, correlation_id, GetMap(ok), src)
        IN  /\ ~r.ok
            /\ r.err = Logic
            /\ r.duties = <<>>
            /\ r.br.adult_liveness.ops = ops
            /\ r.br.adult_liveness.pending_ops = pending_ops
            /\ r.br.adult_liveness.closest_adults = closest_adults
            /\ r.br.full_adults = full_adults

\* C22 witness: a read awaits an adult whose GetBlob response would be counted
\* and sent on, and whose response of another variant is refused.
NonGetBlobFromAwaitedAdult ==
    \E id \in DOMAIN ops : \E src \in ops[id].targets :
        /\ pending_ops[src] = 1
        /\ blob_records_record_adult_read_liveness(
               SelfRecords, id, GetBlob(TRUE), src).br.adult_liveness.pending_ops[src] = 0
        /\ blob_records_record_adult_read_liveness(
               SelfRecords, id, GetMap(TRUE), src).err = Logic

\* ------------------------------------------------- the order of the replies
\* The tracker after remove_target(msg_id, first) and then
\* remove_target(msg_id, second).
RemovedInOrder(msg_id, first, second) ==
    remove_target(remove_target(Self, msg_id, first), msg_id, second)

\* The answers of the records br to the GetBlob reply of first and then that
\* of second, for one correlation id: the records in the end, and the replies
\* that were sent on to the end user, each with its source.
RepliesInOrderFrom(br, id, first, ok_first, second, ok_second) ==
    LET r1 == blob_records_record_adult_read_liveness(br, id, GetBlob(ok_first), first)
        r2 == blob_records_record_adult_read_liveness(
                  r1.br, id, GetBlob(ok_second), second)
    IN  [br |-> r2.br,
         forwarded |-> {<<first, r1.duties[i].send>> : i \in Sends(r1.duties)}
                           \cup {<<second, r2.duties[i].send>> : i \in Sends(r2.duties)}]

RepliesInOrder(id, first, ok_first, second, ok_second) ==
    RepliesInOrderFrom(SelfRecords, id, first, ok_first, second, ok_second)

\* Whether the reply of src is among the replies sent on.
ForwardedFrom(forwarded, src) == \E x \in forwarded : x[1] = src

\* C23 as claimed: for distinct names a and b, remove_target for a and then b
\* leaves the same ops, pending_ops and closest_adults as for b and then a,
\* and the replies sent on to the end user of a read are the same whichever
\* of the replies of a and b comes in first.
ReplyOrderNeverMatters ==
    \A id \in MsgIds, a \in OrderNames : \A b \in OrderNames \ {a} :
        /\ RemovedInOrder(id, a, b) = RemovedInOrder(id, b, a)
        /\ \A ok_a \in BOOLEAN, ok_b \in BOOLEAN :
               RepliesInOrder(id, a, ok_a, b, ok_b).forwarded
                   = RepliesInOrder(id, b, ok_b, a, ok_a).forwarded

\* C23 as amended: remove_target commutes for distinct names as claimed; the
\* replies sent on to the end user, and the records in the end, are the same
\* in both orders when a and b are both targets the read still awaits. For
\* any two sources, the reply that comes in first is sent on exactly when a
\* read is registered under the id and the reply is not the failure of a full
\* adult, and the reply that comes in second is sent on exactly when, on top
\* of that, the first source was not the last target the read awaited.
ReplyOrderOfAwaitedTargets ==
    \A id \in MsgIds, a \in OrderNames : \A b \in OrderNames \ {a} :
        /\ RemovedInOrder(id, a, b) = RemovedInOrder(id, b, a)
        /\ (id \in DOMAIN ops /\ {a, b} \subseteq ops[id].targets) =>
               \A ok_a \in BOOLEAN, ok_b \in BOOLEAN :
                   RepliesInOrder(id, a, ok_a, b, ok_b)
                       = RepliesInOrder(id, b, ok_b, a, ok_a)
        /\ \A ok_a \in BOOLEAN, ok_b \in BOOLEAN :
               LET forwarded == RepliesInOrder(id, a, ok_a, b, ok_b).forwarded
                   live == id \in DOMAIN ops /\ ops[id].kind = "Read"
               IN  /\ ForwardedFrom(forwarded, a) <=>
                          /\ live
                          /\ ~(a \in full_adults /\ ~ok_a)
                   /\ ForwardedFrom(forwarded, b) <=>
                          /\ live
                          /\ ops[id].targets \ {a} # {}
                          /\ ~(b \in full_adults /\ ~ok_b)

\* C23 witness: a read awaits two targets, one of them full, while a third
\* adult, full as well, is not awaited. In either order the success of the
\* full target and the failure of the other are both sent on and the read is
\* complete, and the tracker is left the same with the read still in ops when
\* the third adult and a target reply. The failure of the third adult is not
\* sent on although it comes in before the last awaited reply. Once the
\* target that is not full has replied, its second reply is sent on when it
\* comes in before the reply of the last target and not when it comes in
\* after it.
TwoAwaitedRepliesForwarded ==
    \E id \in DOMAIN ops : \E a \in ops[id].targets \cap full_adults :
        \E b \in ops[id].targets \ full_adults :
            \E c \in full_adults \ ops[id].targets :
                LET after_b == blob_records_record_adult_read_liveness(
                                   SelfRecords, id, GetBlob(FALSE), b).br
                IN  /\ ops[id].targets = {a, b}
                    /\ Cardinality(RepliesInOrder(id, a, TRUE, b, FALSE).forwarded) = 2
                    /\ RepliesInOrder(id, b, FALSE, a, TRUE).br.adult_liveness.ops = <<>>
                    /\ RepliesInOrder(id, a, FALSE, b, FALSE).forwarded
                           = RepliesInOrder(id, b, FALSE, a, FALSE).forwarded
                    /\ Cardinality(RepliesInOrder(id, a, FALSE, b, FALSE).forwarded) = 1
                    /\ id \in DOMAIN RemovedInOrder(id, c, a).ops
                    /\ RemovedInOrder(id, c, a).ops[id].targets = {b}
                    /\ ~ForwardedFrom(RepliesInOrder(id, c, FALSE, a, TRUE).forwarded, c)
                    /\ ForwardedFrom(RepliesInOrder(id, c, FALSE, a, TRUE).forwarded, a)
                    /\ after_b.adult_liveness.ops[id].targets = {a}
                    /\ Cardinality(RepliesInOrderFrom(
                                       after_b, id, b, TRUE, a, TRUE).forwarded) = 2
                    /\ Cardinality(RepliesInOrderFrom(
                                       after_b, id, a, TRUE, b, TRUE).forwarded) = 1

\* --------------------------------------------------- how an op leaves ops
\* The trackers that a reply of name for msg_id can leave: remove_target and
\* the two record_adult_*_liveness calls.
AfterReplyOf(msg_id, name) ==
    {remove_target(Self, msg_id, name),
     record_adult_write_liveness(Self, msg_id, name).t,
     record_adult_read_liveness(Self, msg_id, name).t}

\* C24: an op in ops is still there, with the targets it had, after every
\* new_write and new_read; after a reply of name for msg_id it is gone exactly
\* when msg_id is its id and it had no target other than name, and otherwise
\* it is there with its targets less name (its own id) or as they were
\* (another id); after retain_members_only it is gone only when none of its
\* targets is among the current members.
OpLeavesOnlyWhenEmptied ==
    \A id \in DOMAIN ops :
        /\ \A msg_id \in MsgIds, targets \in TargetSetsOf(IdemNames) :
               /\ id \in DOMAIN new_write(Self, msg_id, NoOrigin, "addr", targets).t.ops
               /\ new_write(Self, msg_id, NoOrigin, "addr", targets).t.ops[id] = ops[id]
               /\ id \in DOMAIN new_read(Self, msg_id, "addr", "client", targets).t.ops
               /\ new_read(Self, msg_id, "addr", "client", targets).t.ops[id] = ops[id]
        /\ \A msg_id \in MsgIds, name \in IdemNames :
               \A t \in AfterReplyOf(msg_id, name) :
                   IF msg_id = id /\ ops[id].targets \ {name} = {}
                   THEN id \notin DOMAIN t.ops
                   ELSE /\ id \in DOMAIN t.ops
                        /\ t.ops[id].targets
                               = IF msg_id = id THEN ops[id].targets \ {name}
                                 ELSE ops[id].targets
        /\ \A current_members \in SUBSET IdemNames :
               LET t == retain_members_only(Self, OldMembers, current_members)
               IN  IF id \in DOMAIN t.ops
                   THEN t.ops[id].targets = ops[id].targets \cap current_members
                   ELSE ops[id].targets \cap current_members = {}

\* C24 witness: an op awaits its last target n after another adult m replied;
\* one more reply of m would leave it in ops, and the reply of n or a
\* membership without n would remove it.
OpAwaitsLastTarget ==
    /\ history.op = "other"
    /\ \E id \in DOMAIN ops : \E n \in ops[id].targets :
           \E m \in DOMAIN pending_ops \ {n} :
               /\ ops[id].targets = {n}
               /\ pending_ops[m] = 0
               /\ id \in DOMAIN remove_target(Self, id, m).ops
               /\ id \notin DOMAIN remove_target(Self, id, n).ops
               /\ id \notin DOMAIN retain_members_only(Self, OldMembers, {m}).ops

\* ------------------------------------------------- after retain_members_only
\* C25: after retain_members_only(current_members) no name outside
\* current_members is a key of pending_ops, a key of closest_adults, a
\* neighbour in closest_adults or a target of an op; an op that had targets,
\* all of them outside current_members, is gone; the pending counts of the
\* names inside current_members are as before, and an op with a target inside
\* current_members is still there with exactly its targets inside.
RetainLeavesMembersOnly ==
    \A current_members \in SUBSET HistNames :
        LET t == retain_members_only(Self, OldMembers, current_members)
        IN  /\ DOMAIN t.pending_ops \subseteq current_members
            /\ DOMAIN t.closest_adults \subseteq current_members
            /\ \A k \in DOMAIN t.closest_adults :
                   SetOf(t.closest_adults[k]) \subseteq current_members
            /\ \A id \in DOMAIN t.ops : t.ops[id].targets \subseteq current_members
            /\ \A id \in DOMAIN ops :
                   IF ops[id].targets \cap current_members = {}
                   THEN ops[id].targets # {} => id \notin DOMAIN t.ops
                   ELSE /\ id \in DOMAIN t.ops
                        /\ t.ops[id] = [ops[id] EXCEPT
                                           !.targets = @ \cap current_members]
            /\ \A n \in DOMAIN pending_ops \cap current_members :
                   /\ n \in DOMAIN t.pending_ops
                   /\ t.pending_ops[n] = pending_ops[n]

\* C25 witness: two ops are in flight and a membership comes in that holds no
\* target of the one and only some of the targets of the other, one of them
\* counted for both ops; the first op goes and the second stays.
RetainDropsOneOpOfTwo ==
    \E current_members \in SUBSET HistNames :
        \E id \in DOMAIN ops : \E other \in DOMAIN ops :
            /\ ops[id].targets # {}
            /\ ops[id].targets \cap current_members = {}
            /\ ops[other].targets \cap current_members # {}
            /\ ops[other].targets \ current_members # {}
            /\ ops[id].targets \cap ops[other].targets # {}
            /\ DOMAIN retain_members_only(Self, OldMembers, current_members).ops = {other}

\* C26: BlobRecords::retain_members_only(members) leaves as full adults the
\* full adults that are among members, no more and no less, and in the same
\* call applies retain_members_only(members) to the tracker, so that no adult
\* outside members is counted or awaited any more; the reader's section is
\* not changed by the call.
RecordsRetainBoth ==
    \A members \in SUBSET ReadNames :
        LET r == blob_records_retain_members_only(SelfRecords, OldMembers, members)
        IN  /\ r.full_adults = full_adults \cap members
            /\ r.adult_liveness = retain_members_only(Self, OldMembers, members)
            /\ DOMAIN r.adult_liveness.pending_ops \subseteq members
            /\ DOMAIN r.adult_liveness.closest_adults \subseteq members
            /\ \A id \in DOMAIN r.adult_liveness.ops :
                   r.adult_liveness.ops[id].targets \subseteq members
            /\ r.reader = adults

\* C26 witness: a read awaits two full adults and a membership comes in with
\* one of them only: one full adult goes, and with it a target of the read.
RetainDropsFullTarget ==
    \E members \in SUBSET ReadNames : \E id \in DOMAIN ops :
        /\ full_adults \ members # {}
        /\ full_adults \cap members # {}
        /\ (ops[id].targets \cap full_adults) \ members # {}
        /\ ops[id].targets \cap members # {}
        /\ blob_records_retain_members_only(SelfRecords, OldMembers, members).full_adults
               # full_adults
        /\ blob_records_retain_members_only(SelfRecords, OldMembers, members).adult_liveness
               # Self

\* -------------------------- SpecOffline: replies to reads on a loaded tracker
\* The tracker after one read per message id i, each fanned out to the adults
\* that have at least i pending ops.
ReadsFor(p) ==
    [i \in 1..Max({0} \cup {p[n] : n \in DOMAIN p}) |->
        ReadOp("addr", "client", {n \in DOMAIN p : p[n] >= i})]

\* history holds the number of replies so far and the outcome of the last one.
InitOffline ==
    \E keys \in SUBSET FindNames :
        \E p \in [keys -> OfflinePendings], full \in SUBSET (keys \cap {0}) :
            /\ pending_ops = p
            /\ closest_adults = recompute_closest_adults([k \in keys |-> <<>>])
            /\ ops = ReadsFor(p)
            /\ chunks = <<>>
            /\ full_adults = full
            /\ adults = keys
            /\ NodeNotStarted
            /\ history = [replies |-> 0, ok |-> TRUE, duties |-> <<>>]

ReplyComesIn ==
    \E correlation_id \in ReadIds, response \in QueryResponses, src \in FindNames :
        LET r == blob_records_record_adult_read_liveness(SelfRecords, correlation_id,
                                                         response, src)
        IN  /\ history.replies < MaxReplies
            /\ RecordsBecome(r.br)
            /\ history' = [replies |-> history.replies + 1, ok |-> r.ok,
                           duties |-> r.duties]

NextOffline == ReplyComesIn

SpecOffline == InitOffline /\ [][NextOffline]_vars

\* The positions of the ProposeOffline duties among the duties.
Proposals(duties) == {i \in 1..Len(duties) : duties[i].kind = "ProposeOffline"}

\* C27: when a GetBlob response has been counted, the duties returned hold
\* one ProposeOffline, with exactly the names that find_unresponsive_adults
\* reports on the tracker as it is after the response was counted, when there
\* are such names, and no ProposeOffline when there are none; the adults the
\* tracker follows and the full adults are the same before and after.
ProposesOfflineAfterBookkeeping ==
    [][(history'.replies > history.replies /\ history'.ok) =>
          LET names == {u[1] : u \in find_unresponsive_adults(
                                         Tracker(ops', pending_ops', closest_adults'))}
              proposals == Proposals(history'.duties)
          IN  /\ IF names = {}
                 THEN proposals = {}
                 ELSE /\ Cardinality(proposals) = 1
                      /\ \A i \in proposals :
                             /\ history'.duties[i] = ProposeOffline(names)
                             /\ history'.duties[i].adults = names
              /\ DOMAIN pending_ops' = DOMAIN pending_ops
              /\ closest_adults' = closest_adults
              /\ full_adults' = full_adults
              /\ adults' = adults]_vars

\* C27 witness: a response was sent on to the end user and an adult proposed
\* offline in the same call, and that adult is still followed by the tracker.
ProposedOfflineWithResponse ==
    /\ history.replies >= 1
    /\ Len(history.duties) = 2
    /\ history.duties[1].kind = "Send"
    /\ history.duties[2].kind = "ProposeOffline"
    /\ history.duties[2].adults # {}
    /\ history.duties[2].adults \subseteq DOMAIN pending_ops

\* ----------------------------------------------- the end of a read's fan-out
\* C30: in the step in which the last of the targets of a read replies, at
\* least one response, successful or not, has been sent to the end user of
\* the read, this reply included; also when every target is a full adult and
\* every reply a failure.
EveryCompletedReadAnswered ==
    [][\A id \in ReadIds :
           (history[id].awaiting # {} /\ history'[id].awaiting = {}) =>
               history'[id].sent >= 1]_vars

\* ------------------------------- SpecLive: reads whose targets all answer
\* The read path with nothing recorded of the calls: history stays as it was
\* at the start. The reads are reads of one address.
LiveRead ==
    \E msg_id \in ReadIds, origin \in EndUsers :
        /\ RecordsBecome(read(SelfRecords, BlobReadGet(Address(PublicBlob(1))),
                              msg_id, origin).br)
        /\ UNCHANGED history

ReplyArrivesFrom(U) ==
    \E correlation_id \in ReadIds, response \in QueryResponses, src \in U :
        /\ RecordsBecome(blob_records_record_adult_read_liveness(
                             SelfRecords, correlation_id, response, src).br)
        /\ UNCHANGED history

ReplyArrives == ReplyArrivesFrom(ReadNames)

\* ---------------------------- SpecOrder: replies of awaited and other adults
\* The read path of SpecLive over the adults of OrderNames, so that a read can
\* await two adults while a third one replies.
NextOrder ==
    \/ SectionChanges(OrderNames)
    \/ IncreaseFullNodeCount(OrderNames)
    \/ Update(OrderNames)
    \/ RecordsRetainMembersOnly(OrderNames)
    \/ LiveRead
    \/ ReplyArrivesFrom(OrderNames)

SpecOrder == InitRecords /\ [][NextOrder]_vars

\* A target that the read under id still awaits replies with a GetBlob.
TargetReplies(id, n) ==
    /\ id \in DOMAIN ops
    /\ n \in ops[id].targets
    /\ \E ok \in BOOLEAN :
           /\ RecordsBecome(blob_records_record_adult_read_liveness(
                                SelfRecords, id, GetBlob(ok), n).br)
           /\ UNCHANGED history

NextLive ==
    \/ SectionChanges(ReadNames)
    \/ IncreaseFullNodeCount(ReadNames)
    \/ Update(ReadNames)
    \/ RecordsRetainMembersOnly(ReadNames)
    \/ LiveRead
    \/ ReplyArrives

\* The read path under the assumption that a read which awaits targets gets
\* the reply of one of them unless a membership without them comes in first:
\* the reply of a target is possible for as long as the read awaits it, and
\* retain_members_only is what takes a target away without a reply. (That
\* every awaited target replies or leaves implies as much.)
SpecLive ==
    /\ InitRecords
    /\ [][NextLive]_vars
    /\ WF_vars(\E id \in ReadIds : \E n \in ReadNames : TargetReplies(id, n))

\* C29: every read registered in the tracker is removed from ops in the end,
\* and the pending count of an adult never exceeds the number of ops in ops
\* that await it, so a read that has been removed counts for no adult.
EveryReadIsEventuallyForgotten ==
    /\ [](\A n \in DOMAIN pending_ops : pending_ops[n] <= OpsTargeting(n))
    /\ \A id \in ReadIds : (id \in DOMAIN ops) ~> (id \notin DOMAIN ops)

\* C29 witness: a read went out to two adults, both replied, and the read is
\* gone from ops with no pending op left for any adult.
ReadCompletedAndForgotten ==
    /\ ops = <<>>
    /\ Cardinality(DOMAIN pending_ops) = 2
    /\ \A n \in DOMAIN pending_ops : pending_ops[n] = 0

\* --------------------------------------------------- SpecNode: Node::run
\* A task handle in `threads`. A routing task is a spawned
\* process_routing_event: spawned, then holding the lock on the EventStream
\* and waiting in next(), then in map_routing_event with the event it took and
\* the lock still held, then with the lock released and the task not yet
\* complete, then done with NodeTask::Result for that event or with
\* NodeTask::None at the end of the stream. A thread task is a handle
\* that Node::handle returned as NodeTask::Thread while a duty derived from
\* `event` was handled: running, then done with any NodeTask or an error.
RoutingTask ==
    [kind |-> "routing", state |-> "spawned", event |-> 0, depth |-> 0,
     result |-> "pending"]

ThreadTask(event, depth) ==
    [kind |-> "thread", state |-> "running", event |-> event, depth |-> depth,
     result |-> "pending"]

\* A duty derived from event, handled at this depth.
Duty(event, depth) == [event |-> event, depth |-> depth]

\* Node::handle on a duty at this depth: the NodeTask values, and the error,
\* that it may return.
handle(depth) ==
    IF depth < MaxDepth THEN {"None", "Result", "Thread", "Err"} ELSE {"None"}

\* handle_and_get_threads on a duty for which handle returned node_task: the
\* duties it goes on to handle before it returns and the task handles it
\* returns. A Result carries one further duty, and an error becomes the duty
\* of try_handle_error.
handle_and_get_threads(duty, node_task) ==
    CASE node_task = "None" -> [duties |-> <<>>, threads |-> <<>>]
      [] node_task = "Thread" ->
             [duties |-> <<>>, threads |-> <<ThreadTask(duty.event, duty.depth + 1)>>]
      [] node_task \in {"Result", "Err"} ->
             [duties |-> <<Duty(duty.event, duty.depth + 1)>>, threads |-> <<>>]

\* Vec::swap_remove, by which select_all takes the completed handle out: the
\* last handle takes its place.
swap_remove(s, i) ==
    IF i = Len(s) THEN SubSeq(s, 1, Len(s) - 1)
    ELSE SubSeq([s EXCEPT ![i] = s[Len(s)]], 1, Len(s) - 1)

InitNode ==
    /\ chunks = <<>>
    /\ full_adults = {}
    /\ adults = {}
    /\ ops = New.ops
    /\ pending_ops = New.pending_ops
    /\ closest_adults = New.closest_adults
    /\ history = <<>>
    /\ threads = <<RoutingTask>>
    /\ event_lock = FALSE
    /\ network_events = 0
    /\ handled = <<>>
    /\ node_duties = <<>>
    /\ pc = "while"

NodeBecomes(t, l, n, h, p) ==
    /\ threads' = t
    /\ event_lock' = l
    /\ network_events' = n
    /\ handled' = h
    /\ pc' = p
    /\ UNCHANGED <<ops, pending_ops, closest_adults, chunks, full_adults, adults, history>>

\* run, the condition of the loop: `while !threads.is_empty()`; run returns
\* Ok(()) when threads is empty.
LoopCondition ==
    /\ pc = "while"
    /\ NodeBecomes(threads, event_lock, network_events, handled,
                   IF threads = <<>> THEN "returned" ELSE "select_all")
    /\ UNCHANGED node_duties

\* process_routing_event, up to network_events.lock().await: a spawned
\* routing task gets the lock when it is free.
ProcessRoutingEventLocks ==
    \E i \in DOMAIN threads :
        /\ threads[i].kind = "routing"
        /\ threads[i].state = "spawned"
        /\ ~event_lock
        /\ NodeBecomes([threads EXCEPT ![i].state = "locked"], TRUE,
                       network_events, handled, pc)
        /\ UNCHANGED node_duties

\* process_routing_event, next().await: the task takes the next event of the
\* stream, or finds the stream ended, and keeps the lock.
ProcessRoutingEventTakes ==
    \E i \in DOMAIN threads :
        /\ threads[i].state = "locked"
        /\ IF network_events < MaxEvents
           THEN NodeBecomes([threads EXCEPT ![i].state = "mapping",
                                            ![i].event = network_events + 1,
                                            ![i].result = "Result"],
                            event_lock, network_events + 1, handled, pc)
           ELSE NodeBecomes([threads EXCEPT ![i].state = "mapping",
                                            ![i].result = "None"],
                            event_lock, network_events, handled, pc)
        /\ UNCHANGED node_duties

\* process_routing_event from map_routing_event(..).await to the end of the
\* `if let`: the event is mapped to a duty (nothing is mapped at the end of
\* the stream) and the guard of the lock is dropped. The task has not
\* completed yet.
ProcessRoutingEventReleases ==
    \E i \in DOMAIN threads :
        /\ threads[i].state = "mapping"
        /\ NodeBecomes([threads EXCEPT ![i].state = "released"], FALSE,
                       network_events, handled, pc)
        /\ UNCHANGED node_duties

\* process_routing_event, Ok(node_task) and the end of the task: the task,
\* which tokio::spawn runs apart from run, completes and its handle becomes
\* ready for select_all, some time after the lock was released.
ProcessRoutingEventReturns ==
    \E i \in DOMAIN threads :
        /\ threads[i].state = "released"
        /\ NodeBecomes([threads EXCEPT ![i].state = "done"], event_lock,
                       network_events, handled, pc)
        /\ UNCHANGED node_duties

\* A task handle that a handler returned completes, with any NodeTask or an
\* error.
ThreadCompletes ==
    \E i \in DOMAIN threads :
        /\ threads[i].kind = "thread"
        /\ threads[i].state = "running"
        /\ \E result \in {"None", "Result", "Err"}
                           \cup (IF threads[i].depth < MaxDepth THEN {"Thread"} ELSE {}) :
               NodeBecomes([threads EXCEPT ![i].state = "done", ![i].result = result],
                           event_lock, network_events, handled, pc)
        /\ UNCHANGED node_duties

\* What the match in the loop of run makes of the result of the task that
\* select_all returned: the duties to pass to handle_and_get_threads and the
\* handle to push. An error of the task becomes the duty of try_handle_error
\* without a context, a NoOp.
ResultOutcomes(task) ==
    CASE task.result = "Thread" ->
             [duties |-> <<>>, threads |-> <<ThreadTask(task.event, task.depth + 1)>>]
      [] task.result = "Result" ->
             [duties |-> <<Duty(task.event, task.depth)>>, threads |-> <<>>]
      [] task.result = "Err" ->
             [duties |-> <<Duty(task.event, MaxDepth)>>, threads |-> <<>>]
      [] task.result = "None" -> [duties |-> <<>>, threads |-> <<>>]

\* run, select_all and the match on its result: select_all polls the handles
\* in the order of the Vec and returns the first one that is done, with the
\* handles that remain, and the match finds the duties to handle. `threads`
\* stands for remaining_futures until the end of the loop body.
SelectAll ==
    /\ pc = "select_all"
    /\ \E i \in DOMAIN threads :
           /\ threads[i].state = "done"
           /\ \A j \in 1..(i - 1) : threads[j].state # "done"
           /\ LET o == ResultOutcomes(threads[i])
              IN  /\ NodeBecomes(swap_remove(threads, i) \o o.threads, event_lock,
                                 network_events, handled,
                                 IF o.duties = <<>> THEN "try_lock" ELSE "handle")
                  /\ node_duties' = o.duties

\* run, one call of self.handle(duty).await in handle_and_get_threads, from
\* the call to its return: the tasks go on while run waits in it. With record
\* the event of the duty is put down in handled.
HandleDuty(record) ==
    /\ pc = "handle"
    /\ \E node_task \in handle(Head(node_duties).depth) :
           LET o == handle_and_get_threads(Head(node_duties), node_task)
               left == o.duties \o Tail(node_duties)
           IN  /\ NodeBecomes(threads \o o.threads, event_lock, network_events,
                              IF record THEN Append(handled, Head(node_duties).event)
                              ELSE handled,
                              IF left = <<>> THEN "try_lock" ELSE "handle")
               /\ node_duties' = left

\* The end of the loop body without the spawn of another
\* process_routing_event.
try_lock_without_spawn(t, locked) == t

\* `threads` after the end of the loop body: another process_routing_event is
\* spawned when event_lock.try_lock() gets the lock, which is released at once.
try_lock_and_spawn(t, locked) ==
    IF locked THEN t ELSE Append(t, RoutingTask)

\* run, the end of the loop body.
TryLock ==
    /\ pc = "try_lock"
    /\ NodeBecomes(try_lock_and_spawn(threads, event_lock),
                   event_lock, network_events, handled, "while")
    /\ UNCHANGED node_duties

NextNode ==
    \/ LoopCondition
    \/ ProcessRoutingEventLocks
    \/ ProcessRoutingEventTakes
    \/ ProcessRoutingEventReleases
    \/ ProcessRoutingEventReturns
    \/ ThreadCompletes
    \/ SelectAll
    \/ HandleDuty(TRUE)
    \/ TryLock

SpecNode == InitNode /\ [][NextNode]_vars

\* C28: the duties are handled in the order of the routing events they are
\* derived from: every duty derived from event N is handled before any duty
\* derived from a later event, whatever the interleaving of the spawned
\* process_routing_event tasks and of the other task handles.
DutiesHandledInEventOrder ==
    \A i \in DOMAIN handled : \A j \in DOMAIN handled :
        i < j => handled[i] <= handled[j]

\* ------------------------------------- SpecLoop: Node::run, handles only
\* The loop of run with nothing recorded of the duties handled: handled stays
\* empty, and the task handles are as in SpecNode.
NextLoop ==
    \/ LoopCondition
    \/ ProcessRoutingEventLocks
    \/ ProcessRoutingEventTakes
    \/ ProcessRoutingEventReleases
    \/ ProcessRoutingEventReturns
    \/ ThreadCompletes
    \/ SelectAll
    \/ HandleDuty(FALSE)
    \/ TryLock

\* The stream of SpecLoop has MaxLoopEvents events: network_events, which
\* counts up to MaxEvents at the end of the stream, starts that many short of
\* it.
InitLoop ==
    /\ chunks = <<>>
    /\ full_adults = {}
    /\ adults = {}
    /\ ops = New.ops
    /\ pending_ops = New.pending_ops
    /\ closest_adults = New.closest_adults
    /\ history = <<>>
    /\ threads = <<RoutingTask>>
    /\ event_lock = FALSE
    /\ network_events = MaxEvents - MaxLoopEvents
    /\ handled = <<>>
    /\ node_duties = <<>>
    /\ pc = "while"

SpecLoop == InitLoop /\ [][NextLoop]_vars

\* C33: whenever run evaluates the condition of its loop, threads holds a task
\* handle, so run never returns, whether or not the stream has ended: when the
\* loop body ends, a process_routing_event in threads holds the lock on the
\* event stream, or one has just been spawned and is the last handle of
\* threads.
LoopNeverFindsThreadsEmpty ==
    /\ [](pc # "returned" /\ (pc = "while" => threads # <<>>))
    /\ [][(pc = "try_lock" /\ pc' = "while") =>
              \/ \E i \in DOMAIN threads' :
                     /\ threads'[i].kind = "routing"
                     /\ threads'[i].state \in {"locked", "mapping"}
              \/ threads'[Len(threads')] = RoutingTask]_vars

\* C33 witness: the stream has ended, every handle that was in threads has
\* come back and has been taken out, and the loop is at its condition again
\* with a process_routing_event just spawned as its one handle.
LoopGoesOnAfterStreamEnded ==
    /\ pc = "while"
    /\ network_events = MaxEvents
    /\ threads = <<RoutingTask>>

\* ------------------------------ SpecFrame: writes in between reads in flight
\* The read path of SpecLive with the writes and the republishing of chunks of
\* BlobRecords in between.
NextFrame ==
    \/ SectionChanges(ReadNames)
    \/ IncreaseFullNodeCount(ReadNames)
    \/ Update(ReadNames)
    \/ RecordsRetainMembersOnly(ReadNames)
    \/ LiveRead
    \/ ReplyArrives
    \/ Write
    \/ RepublishChunk

SpecFrame == InitRecords /\ [][NextFrame]_vars

\* C31: a write (the store of a new blob or a DeletePrivate) and
\* republish_chunk leave the tracker as it was: ops, pending_ops and
\* closest_adults are the same after the call as before it, whatever the
\* input and whatever reads are in flight.
WritesLeaveTrackerAlone ==
    /\ \A w \in BlobWrites, msg_id \in MsgIds, key \in Keys, origin \in EndUsers :
           LET after == records_after_write(SelfRecords, w, msg_id,
                                            ClientSigned(key), origin).adult_liveness
           IN  /\ after.ops = ops
               /\ after.pending_ops = pending_ops
               /\ after.closest_adults = closest_adults
    /\ \A data \in Blobs :
           LET after == records_after_republish_chunk(SelfRecords, data).adult_liveness
           IN  /\ after.ops = ops
               /\ after.pending_ops = pending_ops
               /\ after.closest_adults = closest_adults

\* C31 witness: a read awaits an adult with a pending op, and a write of a new
\* blob under an id that is not in ops goes out to that same adult.
WriteToAdultAwaitedByRead ==
    \E id \in DOMAIN ops, n \in DOMAIN pending_ops :
        /\ n \in ops[id].targets
        /\ pending_ops[n] > 0
        /\ \E w \in BlobWrites, msg_id \in MsgIds \ DOMAIN ops, key \in Keys :
               LET duty == write(SelfRecords, w, msg_id, ClientSigned(key), "client")
               IN  /\ w.BlobWrite = "New"
                   /\ duty.kind = "SendToNodes"
                   /\ n \in duty.targets


\* C32: every op in ops has a target: BlobRecords registers no read with an
\* empty set of targets, and an op whose last target is removed, by a reply or
\* by a change of membership, leaves ops with it.
EveryOpHasATarget ==
    \A id \in DOMAIN ops : ops[id].targets # {}

\* C32 witness: a read went out to two adults, one of them replied, and the
\* op is in ops with the other as its one target.
ReadDownToItsLastTarget ==
    \E id \in DOMAIN ops :
        /\ Cardinality(ops[id].targets) = 1
        /\ history[id].awaiting = ops[id].targets
        /\ history[id].replied


\* C34: after every public operation of the tracker the adults counted in
\* pending_ops are the adults with a neighbour list in closest_adults, and
\* every target of every op in ops is one of them.
TrackedAdultsAgree ==
    /\ DOMAIN pending_ops = DOMAIN closest_adults
    /\ \A id \in DOMAIN ops : ops[id].targets \subseteq DOMAIN closest_adults

\* C34 witness: an op awaits a tracked adult while another tracked adult, with
\* no pending op left, is awaited by no op, after a call other than new_write
\* and new_read.
TrackedAdultAwaitedByNoOp ==
    /\ history.call = <<>>
    /\ \E id \in DOMAIN ops : ops[id].targets # {}
    /\ \E n \in DOMAIN pending_ops :
           /\ pending_ops[n] = 0
           /\ \A id \in DOMAIN ops : n \notin ops[id].targets


\* ------------------------------------------------ SpecOps: AdultOps alone
\* AdultOps (adult_ops.rs) is the tracker before AdultLiveness, with the same
\* three maps. Its new_write and new_read insert and count as those of
\* AdultLiveness do (its Write op carries the BlobWrite, which is held in the
\* address field here), and it has no retain_members_only.
\*
\* AdultOps::remove_target: the set of its outcomes. `*entry -= 1` is a
\* subtraction on usize with no test of the count, so on a count of 0 it
\* overflows: the build with overflow checks panics there, before anything is
\* stored, and the build without them stores the wrapped value and goes on.
\* A usize is held as the integer congruent to it modulo 2^64 that is nearest
\* to 0, so usize::MAX is held as -1.
adult_ops_remove_target(t, msg_id, name) ==
    LET overflows == name \in DOMAIN t.pending_ops /\ t.pending_ops[name] = 0
        p == IF name \in DOMAIN t.pending_ops
             THEN [t.pending_ops EXCEPT ![name] = @ - 1]
             ELSE t.pending_ops
        complete == IF msg_id \in DOMAIN t.ops
                    THEN t.ops[msg_id].targets \ {name} = {}
                    ELSE TRUE
        o == IF complete
             THEN Remove(t.ops, msg_id)
             ELSE [t.ops EXCEPT ![msg_id].targets = @ \ {name}]
        returned == Tracker(o, p, t.closest_adults)
    IN  IF overflows
        THEN {[t |-> t, overflow |-> "panic"], [t |-> returned, overflow |-> "wrap"]}
        ELSE {[t |-> returned, overflow |-> "none"]}

\* history.overflow is the outcome of the subtractions so far; the tracker is
\* followed up to the first one that overflows.
InitOps ==
    /\ chunks = <<>>
    /\ full_adults = {}
    /\ adults = {}
    /\ NodeNotStarted
    /\ ops = New.ops
    /\ pending_ops = New.pending_ops
    /\ closest_adults = New.closest_adults
    /\ history = [overflow |-> "none"]

OpsNewWrite ==
    \E msg_id \in MsgIds, origin \in EndUsers, blob_write \in Addresses,
       targets \in TargetSetsOf(IdemNames) :
        /\ history.overflow = "none"
        /\ Becomes(new_write(Self, msg_id, origin, blob_write, targets).t)
        /\ UNCHANGED history

OpsNewRead ==
    \E msg_id \in MsgIds, origin \in EndUsers, address \in Addresses,
       targets \in TargetSetsOf(IdemNames) :
        /\ history.overflow = "none"
        /\ Becomes(new_read(Self, msg_id, address, origin, targets).t)
        /\ UNCHANGED history

OpsRemoveTarget ==
    \E msg_id \in MsgIds, name \in IdemNames :
        /\ history.overflow = "none"
        /\ \E r \in adult_ops_remove_target(Self, msg_id, name) :
               /\ Becomes(r.t)
               /\ history' = [overflow |-> r.overflow]

NextOps ==
    \/ OpsNewWrite
    \/ OpsNewRead
    \/ OpsRemoveTarget

SpecOps == InitOps /\ [][NextOps]_vars

\* C35: no call of AdultOps::remove_target decrements a pending count that
\* is zero, so the subtraction never overflows and no pending count goes
\* below zero, whatever the sequence of new_write, new_read and remove_target,
\* repeated replies of one adult and replies to unknown msg_ids included.
OpsCountsNeverBelowZero ==
    /\ history.overflow = "none"
    /\ \A n \in DOMAIN pending_ops : pending_ops[n] >= 0

====
